---- MODULE Spec2Model ----
(***************************************************************************)
(* State-machine model of the my-lms backend (Django): the video-progress  *)
(* endpoint core.views.update_progress over the VideoProgress table, and   *)
(* the module-item sequence navigation core.views._get_sequence_neighbors. *)
(***************************************************************************)
EXTENDS Integers, Sequences, FiniteSets, TLC

(***************************************************************************)
(* Python floats.  watched_time and duration are produced by float(...) of *)
(* the JSON body, so they are IEEE-754 doubles: json.loads accepts NaN,    *)
(* Infinity and out-of-range literals such as 1e999.  A double is modelled *)
(* as a record: an integral finite value, +infinity, or NaN.               *)
(***************************************************************************)
Num(n) == [k |-> "num", v |-> n]

INF == [k |-> "inf", v |-> 0]

NAN == [k |-> "nan", v |-> 0]

IsNum(x) == x.k = "num"

\* IEEE comparisons: every comparison with NaN is false.
FGt(a, b) ==
    CASE a.k = "nan" \/ b.k = "nan" -> FALSE
      [] a.k = "inf" -> b.k = "num"
      [] b.k = "inf" -> FALSE
      [] OTHER -> a.v > b.v

FLt(a, b) == FGt(b, a)

FGe(a, b) ==
    CASE a.k = "nan" \/ b.k = "nan" -> FALSE
      [] a.k = "inf" -> TRUE
      [] b.k = "inf" -> FALSE
      [] OTHER -> a.v >= b.v

FLe(a, b) == FGe(b, a)

\* Python's max(a, b): keeps a unless b > a (so max(a, nan) = a).
PyMax(a, b) == IF FGt(b, a) THEN b ELSE a

\* Python's min(100, p) on integers.
PyMin(a, b) == IF b < a THEN b ELSE a

(***************************************************************************)
(* Binary64 arithmetic of int((w / d) * 100) for integers 0 < w, d < 2^15. *)
(* A positive double is kept as its significand in base-8192 digits (least *)
(* significant first) and a shift: value = Digits * 2^(-shift).            *)
(***************************************************************************)
MantissaBits == 53

LimbBits == 13

RECURSIVE Pow2(_)
Pow2(n) == IF n = 0 THEN 1 ELSE 2 * Pow2(n - 1)

Base == Pow2(LimbBits)

\* Largest k >= 0 with d * 2^k <= w (for w >= d).
RECURSIVE ExpUp(_, _)
ExpUp(w, d) == IF 2 * d <= w THEN 1 + ExpUp(w, 2 * d) ELSE 0

\* Smallest j >= 0 with w * 2^j >= d (for w > 0).
RECURSIVE ExpDown(_, _)
ExpDown(w, d) == IF w >= d THEN 0 ELSE 1 + ExpDown(2 * w, d)

\* Long division: n more base-8192 digits of r / den (r < den), least
\* significant first, with the remainder left after them.
RECURSIVE DivDigits(_, _, _)
DivDigits(r, den, n) ==
    IF n = 0 THEN [digits |-> << >>, rem |-> r]
    ELSE LET rest == DivDigits((Base * r) % den, den, n - 1)
         IN  [digits |-> rest.digits \o <<(Base * r) \div den>>, rem |-> rest.rem]

\* digits + 1.
RECURSIVE IncDigits(_)
IncDigits(s) ==
    IF s = << >> THEN <<1>>
    ELSE IF Head(s) + 1 < Base THEN <<Head(s) + 1>> \o Tail(s)
    ELSE <<0>> \o IncDigits(Tail(s))

\* Round-to-nearest-even of a value whose kept digits are `kept`, given the
\* first dropped bit and whether anything non-zero follows it.
RoundEven(kept, guard, sticky) ==
    IF guard = 1 /\ (sticky \/ Head(kept) % 2 = 1) THEN IncDigits(kept) ELSE kept

\* The double nearest to w / d: the quotient is scaled into [1, 2), its 52
\* fraction bits are four digits, and the rest decides the rounding.
FDivInt(w, d) ==
    LET up == IF w >= d THEN ExpUp(w, d) ELSE 0
        dn == IF w >= d THEN 0 ELSE ExpDown(w, d)
        num == w * Pow2(dn)
        den == d * Pow2(up)
        q == DivDigits(num - den, den, (MantissaBits - 1) \div LimbBits)
        g == IF 2 * q.rem >= den THEN 1 ELSE 0
        sticky == 2 * q.rem - g * den > 0
    IN  [digits |-> RoundEven(q.digits \o <<1>>, g, sticky),
         shift |-> (MantissaBits - 1) - (up - dn)]

\* c * digits for a small integer c.
RECURSIVE MulSmall(_, _, _)
MulSmall(s, c, carry) ==
    IF s = << >>
    THEN IF carry = 0 THEN << >> ELSE <<carry>>
    ELSE LET acc == c * Head(s) + carry
         IN  <<acc % Base>> \o MulSmall(Tail(s), c, acc \div Base)

RECURSIVE BitLen(_)
BitLen(n) == IF n = 0 THEN 0 ELSE 1 + BitLen(n \div 2)

\* digits shifted right by t < 13 bits.
ShiftRight(s, t) ==
    [j \in 1..Len(s) |->
        (s[j] \div Pow2(t))
        + (IF j < Len(s) THEN (s[j + 1] % Pow2(t)) * Pow2(LimbBits - t) ELSE 0)]

\* The double nearest to x * c (c < 2^13): the exact product is cut back to
\* 53 significant bits.
FMulSmall(x, c) ==
    LET p == MulSmall(x.digits, c, 0)
        t == (LimbBits * (Len(p) - 1) + BitLen(p[Len(p)])) - MantissaBits
    IN  IF t <= 0 THEN [digits |-> p, shift |-> x.shift]
        ELSE [digits |-> RoundEven(ShiftRight(p, t),
                                   (p[1] \div Pow2(t - 1)) % 2,
                                   p[1] % Pow2(t - 1) # 0),
              shift |-> x.shift - t]

RECURSIVE DigitsToInt(_)
DigitsToInt(s) == IF s = << >> THEN 0 ELSE Head(s) + Base * DigitsToInt(Tail(s))

\* int(x) of a positive double below 2^27: truncation.
FTrunc(x) ==
    LET a == x.shift \div LimbBits
        b == x.shift % LimbBits
    IN  IF a >= Len(x.digits) THEN 0
        ELSE DigitsToInt(SubSeq(x.digits, a + 1, Len(x.digits))) \div Pow2(b)

\* round(x, 1) of a positive double below 2^17, in tenths: the integer
\* nearest to the exact 10 * x, the even one of two equally near.
FRoundTenths(x) ==
    LET p == MulSmall(x.digits, 10, 0)
        a == x.shift \div LimbBits
        b == x.shift % LimbBits
        pad == p \o [j \in 1..(a + 1) |-> 0]
        whole == DigitsToInt(ShiftRight(SubSeq(pad, a + 1, Len(pad)), b))
        guard == IF b > 0 THEN (pad[a + 1] \div Pow2(b - 1)) % 2
                 ELSE IF a > 0 THEN (pad[a] \div Pow2(LimbBits - 1)) % 2
                 ELSE 0
        sticky == IF b > 0
                  THEN pad[a + 1] % Pow2(b - 1) # 0 \/ \E j \in 1..a : pad[j] # 0
                  ELSE /\ a > 0
                       /\ \/ pad[a] % Pow2(LimbBits - 1) # 0
                          \/ \E j \in 1..(a - 1) : pad[j] # 0
    IN  whole + (IF guard = 1 /\ (sticky \/ whole % 2 = 1) THEN 1 ELSE 0)

\* round(w / d * 100, 1) on integral doubles w >= 0, d > 0, in tenths.
PyRoundTenths(w, d) == IF w = 0 THEN 0 ELSE FRoundTenths(FMulSmall(FDivInt(w, d), 100))

\* int((w / d) * 100) on integral doubles w >= 0, d > 0.
PyPercentInt(w, d) == IF w = 0 THEN 0 ELSE FTrunc(FMulSmall(FDivInt(w, d), 100))

(***************************************************************************)
(* The store.  Video rows are fixed here: video 1 has a stored duration of *)
(* 600 seconds, video 2 was saved with the field's default, 0.             *)
(***************************************************************************)
Users == {1}

VideoDuration == (1 :> 600) @@ (2 :> 0)

VideoIds == DOMAIN VideoDuration

\* Requests that may be in flight together, each run once.
MaxRequests == 2

Procs == 1..MaxRequests

VARIABLES
    progress,   \* the VideoProgress table: a set of rows
    nextId,     \* the table's next auto-assigned primary key
    last,       \* the last request answered and the response it got
    req,        \* the requests in flight: each one's place in the view and its locals
    modules,    \* the Module table
    items,      \* the ModuleItem table
    nav,        \* the last module_item_detail request and what it was shown
    enrollments,  \* the Enrollment table
    submissions,  \* the Submission table
    resp,         \* the last request to a course view and its response
    enrollReq,    \* the enroll_course requests in flight
    submitReq,    \* the submit_assignment requests in flight
    catalog,      \* the Term, Course, Section, Page, Assignment and Video tables
    users,        \* the User table
    shown,        \* the page of the last video_detail request
    signupResp    \* the answer to the last signup request

progVars == <<progress, nextId, last, req>>

navVars == <<modules, items, nav>>

courseVars == <<enrollments, submissions, resp, enrollReq>>

extraVars == <<submitReq, catalog, users, shown, signupResp>>

vars == <<progVars, navVars, courseVars, extraVars>>

(***************************************************************************)
(* Request bodies.  A JSON field is missing, null, a non-numeric string,   *)
(* or a number.                                                            *)
(***************************************************************************)
Missing == [t |-> "missing", x |-> Num(0)]

Null == [t |-> "null", x |-> Num(0)]

Str == [t |-> "str", x |-> Num(0)]

JNum(x) == [t |-> "num", x |-> x]

Object(v, w, d) ==
    [kind |-> "object", video_id |-> v, watched_time |-> w, duration |-> d]

Unparsable == [kind |-> "unparsable", video_id |-> Missing,
               watched_time |-> Missing, duration |-> Missing]

NotObject == [kind |-> "not_object", video_id |-> Missing,
              watched_time |-> Missing, duration |-> Missing]

WatchedInputs == {Num(0 - 5), Num(174), Num(200), Num(300), Num(590), INF, NAN}

DurationInputs == {Num(0 - 1), Num(300), NAN}

WellFormedBodies ==
    {Object(JNum(Num(v)), JNum(w), JNum(d)) :
        v \in VideoIds, w \in WatchedInputs, d \in DurationInputs}

\* One field off at a time: an unknown or missing video, a non-numeric or
\* non-finite field, a body that is no JSON or no JSON object.
OtherBodies ==
    {Unparsable, NotObject}
    \cup {Object(v, JNum(Num(300)), JNum(Num(600))) :
            v \in {Missing, Null, Str, JNum(Num(3)), JNum(INF), JNum(NAN)}}
    \cup {Object(JNum(Num(1)), w, JNum(Num(600))) : w \in {Missing, Null, Str}}
    \cup {Object(JNum(Num(1)), JNum(Num(300)), d) : d \in {Missing, Null, Str}}

Bodies == WellFormedBodies \cup OtherBodies

(***************************************************************************)
(* update_progress, step by step.                                          *)
(***************************************************************************)
\* int(data.get("video_id", 0))
PyInt(raw) ==
    CASE raw.t = "missing" -> [exc |-> "none", val |-> 0]
      [] raw.t = "null" -> [exc |-> "TypeError", val |-> 0]
      [] raw.t = "str" -> [exc |-> "ValueError", val |-> 0]
      [] raw.x.k = "inf" -> [exc |-> "OverflowError", val |-> 0]
      [] raw.x.k = "nan" -> [exc |-> "ValueError", val |-> 0]
      [] OTHER -> [exc |-> "none", val |-> raw.x.v]

\* float(data.get("watched_time", 0))
PyFloat(raw) ==
    CASE raw.t = "missing" -> [exc |-> "none", val |-> Num(0)]
      [] raw.t = "null" -> [exc |-> "TypeError", val |-> Num(0)]
      [] raw.t = "str" -> [exc |-> "ValueError", val |-> Num(0)]
      [] OTHER -> [exc |-> "none", val |-> raw.x]

\* An except clause that forgets ValueError.
CaughtNoValueError == {"TypeError", "JSONDecodeError"}

\* except (json.JSONDecodeError, TypeError, ValueError)
Caught == {"TypeError", "ValueError", "JSONDecodeError"}

\* The try block: the first exception raised, in evaluation order.
ParseExc(body) ==
    CASE body.kind = "unparsable" -> "JSONDecodeError"
      [] body.kind = "not_object" -> "AttributeError"
      [] PyInt(body.video_id).exc # "none" -> PyInt(body.video_id).exc
      [] PyFloat(body.watched_time).exc # "none" -> PyFloat(body.watched_time).exc
      [] OTHER -> PyFloat(body.duration).exc

\* 400 for a caught exception, 500 for one that escapes the view, 0 to go on.
ParseStatus(body) ==
    CASE ParseExc(body) = "none" -> 0
      [] ParseExc(body) \in Caught -> 400
      [] OTHER -> 500

\* The stored duration substituted without the "or 1".
EffectiveDurationNoDefault(duration, video) ==
    IF FLe(duration, Num(0)) THEN Num(VideoDuration[video]) ELSE duration

\* if duration <= 0: duration = video.duration or 1
EffectiveDuration(duration, video) ==
    IF FLe(duration, Num(0))
    THEN (IF VideoDuration[video] # 0 THEN Num(VideoDuration[video]) ELSE Num(1))
    ELSE duration

\* if watched_time < 0: watched_time = 0
ClampWatched(w) == IF FLt(w, Num(0)) THEN Num(0) ELSE w

\* The reported value stored as it comes.
NewWatchedOverwrite(old, w) == w

\* progress.watched_time = max(progress.watched_time, watched_time)
NewWatched(old, w) == PyMax(old, w)

\* The threshold put at the full duration.
AtFullDuration(w, d) ==
    CASE w.k = "nan" \/ d.k = "nan" -> FALSE
      [] w.k = "inf" -> TRUE
      [] d.k = "inf" -> FALSE
      [] OTHER -> w.v >= d.v

\* duration * 0.95 <= w on doubles (0.95 * d and 19 * d / 20 order integral
\* w the same way for every integral d of this model).
AtThreshold(w, d) ==
    CASE w.k = "nan" \/ d.k = "nan" -> FALSE
      [] w.k = "inf" -> TRUE
      [] d.k = "inf" -> FALSE
      [] OTHER -> 20 * w.v >= 19 * d.v

\* The flag recomputed from the threshold on every report.
NewCompletedRecomputed(old, w, d) == FGt(d, Num(0)) /\ AtThreshold(w, d)

\* if duration > 0 and progress.watched_time >= duration * 0.95: is_completed = True
NewCompleted(old, w, d) == IF FGt(d, Num(0)) /\ AtThreshold(w, d) THEN TRUE ELSE old

\* The finite watched times and durations the inputs can lead to, and
\* int((w / d) * 100) for each of them, worked out once.
FiniteWatched == {0} \cup {w.v : w \in {x \in WatchedInputs : IsNum(x) /\ x.v > 0}}

FiniteDurations ==
    {d.v : d \in {x \in DurationInputs : IsNum(x) /\ x.v > 0}}
    \cup {IF VideoDuration[v] # 0 THEN VideoDuration[v] ELSE 1 : v \in VideoIds}

PercentTable == [w \in FiniteWatched, d \in FiniteDurations |-> PyPercentInt(w, d)]

\* int((progress.watched_time / duration) * 100) if duration > 0 else 0, then
\* min(100, .): int() of an infinity or a NaN raises.
Percent(w, d) ==
    CASE ~FGt(d, Num(0)) -> [exc |-> "none", val |-> 0]
      [] w.k = "nan" -> [exc |-> "ValueError", val |-> 0]
      [] w.k = "inf" /\ d.k = "inf" -> [exc |-> "ValueError", val |-> 0]
      [] w.k = "inf" -> [exc |-> "OverflowError", val |-> 0]
      [] d.k = "inf" -> [exc |-> "none", val |-> 0]
      [] OTHER -> [exc |-> "none", val |-> PyMin(100, PercentTable[w.v, d.v])]

Rows(table, u, v) == {r \in table : r.user = u /\ r.video = v}

NewRow(id, u, v) ==
    [id |-> id, user |-> u, video |-> v, watched_time |-> Num(0), is_completed |-> FALSE]

\* No constraint on the table.
UniqueNotEnforced(table, u, v) == FALSE

\* unique_together (user, video): the insert is refused when a row exists.
UniqueViolation(table, u, v) == Rows(table, u, v) # {}

\* progress.save(): UPDATE ... WHERE id = row.id
SaveRow(table, row) == {r \in table : r.id # row.id} \cup {row}

NoBody == Unparsable

\* What a request left behind: the response (status, percent, watched_time,
\* is_completed), the exception that ended the view if one did, and the
\* video and duration the view worked with (0 when it never got that far).
Response(u, body, status, exc, v, d, pct, w, c) ==
    [op |-> "update_progress", user |-> u, body |-> body, status |-> status,
     exc |-> exc, video |-> v, duration |-> d,
     percent |-> pct, watched_time |-> w, is_completed |-> c]

NoResponse == [Response(0, NoBody, 0, "none", 0, Num(0), 0, Num(0), FALSE)
                 EXCEPT !.op = "none"]

None == 0

NavResult(c, i, status, prev, next) ==
    [op |-> "module_item_detail", course |-> c, item |-> i, status |-> status,
     prev |-> prev, next |-> next]

NoNav == [NavResult(0, 0, 0, None, None) EXCEPT !.op = "none"]

\* A request to enroll_course, submission_list or grade_submission and
\* what it was answered: the status and the messages flashed.
CourseResp(op, u, method, target, raw_score, feedback, status, msgs) ==
    [op |-> op, user |-> u, method |-> method, course |-> target[1],
     assignment |-> target[2], submission |-> target[3], score |-> raw_score,
     feedback |-> feedback, status |-> status, messages |-> msgs]

NoResp ==
    CourseResp("none", 0, "GET", <<0, 0, 0>>, [t |-> "missing", chars |-> << >>],
               [t |-> "missing", chars |-> << >>], 0, << >>)

\* What video_detail answered: the status and progress_percent, in tenths.
DetailResult(u, v, status, percent) ==
    [op |-> "video_detail", user |-> u, video |-> v, status |-> status,
     progress_percent |-> percent]

NoDetail == [DetailResult(0, 0, 0, Num(0)) EXCEPT !.op = "none"]

\* What signup answered to a form: the posted username, the checkbox, the
\* status and the error on the username field.
SignupAnswer(user, method, raw, is_instructor, status, error) ==
    [op |-> "signup", user |-> user, method |-> method, username |-> raw,
     is_instructor |-> is_instructor, status |-> status, error |-> error]

NoSignup == [SignupAnswer(0, "GET", << >>, FALSE, 0, "") EXCEPT !.op = "none"]

\* A submit_assignment request not yet sent.
IdleSubmit == [pc |-> "idle", user |-> 0, assignment |-> 0, attempt |-> 0]

\* The tables of the catalog, all empty.
NoCatalog ==
    [terms |-> {}, courses |-> {}, sections |-> {}, pages |-> {}, assignments |-> {},
     videos |-> {}]

\* An enroll_course request not yet sent.
IdleEnroll == [pc |-> "idle", user |-> 0, course |-> 0, section |-> 0]

\* A request not yet sent.
IdleReq ==
    [pc |-> "idle", user |-> 0, body |-> NoBody, video |-> 0, watched_time |-> Num(0),
     duration |-> Num(0), row |-> NewRow(0, 0, 0), conflict |-> FALSE]

Init ==
    /\ progress = {}
    /\ nextId = 1
    /\ last = NoResponse
    /\ req = [p \in Procs |-> IdleReq]
    /\ modules = {}
    /\ items = {}
    /\ nav = NoNav
    /\ enrollments = {}
    /\ submissions = {}
    /\ resp = NoResp
    /\ enrollReq = [p \in Procs |-> IdleEnroll]
    /\ submitReq = [p \in Procs |-> IdleSubmit]
    /\ catalog = NoCatalog
    /\ users = {}
    /\ shown = NoDetail
    /\ signupResp = NoSignup

\* @login_required: an anonymous request is redirected to the login page.
UpdateProgressAnonymous ==
    /\ last' = Response(0, NoBody, 302, "none", 0, Num(0), 0, Num(0), FALSE)
    /\ UNCHANGED <<progress, nextId, req>>
    /\ UNCHANGED <<navVars, courseVars, extraVars>>

\* @require_POST: any other method is answered 405.
UpdateProgressNotPost(u) ==
    /\ last' = Response(u, NoBody, 405, "none", 0, Num(0), 0, Num(0), FALSE)
    /\ UNCHANGED <<progress, nextId, req>>
    /\ UNCHANGED <<navVars, courseVars, extraVars>>

\* The body does not parse (400 when the exception is caught, 500 when it
\* escapes), or names no video (404): nothing is read or written.
UpdateProgressRejected(u, body) ==
    /\ \/ ParseStatus(body) # 0
       \/ ParseStatus(body) = 0 /\ PyInt(body.video_id).val \notin VideoIds
    /\ last' = Response(u, body,
                        IF ParseStatus(body) # 0 THEN ParseStatus(body) ELSE 404,
                        IF ParseStatus(body) # 0 THEN ParseExc(body) ELSE "Http404",
                        0, Num(0), 0, Num(0), FALSE)
    /\ UNCHANGED <<progress, nextId, req>>
    /\ UNCHANGED <<navVars, courseVars, extraVars>>

\* The whole view on a parsed body naming a video, requests handled one at
\* a time: get_or_create, max, threshold, save, percent.
UpdateProgress(u, body) ==
    /\ ParseStatus(body) = 0
    /\ PyInt(body.video_id).val \in VideoIds
    /\ LET v == PyInt(body.video_id).val
           d == EffectiveDuration(PyFloat(body.duration).val, v)
           w == ClampWatched(PyFloat(body.watched_time).val)
           found == Rows(progress, u, v)
           row == IF found # {} THEN CHOOSE r \in found : TRUE ELSE NewRow(nextId, u, v)
           w2 == NewWatched(row.watched_time, w)
           c2 == NewCompleted(row.is_completed, w2, d)
           saved == [row EXCEPT !.watched_time = w2, !.is_completed = c2]
           pct == Percent(w2, d)
       IN  /\ progress' = SaveRow(progress, saved)
           /\ nextId' = IF found # {} THEN nextId ELSE nextId + 1
           /\ last' = Response(u, body, IF pct.exc = "none" THEN 200 ELSE 500,
                               pct.exc, v, d, pct.val, w2, c2)
    /\ UNCHANGED req
    /\ UNCHANGED <<navVars, courseVars, extraVars>>

Next ==
    \/ UpdateProgressAnonymous
    \/ \E u \in Users : UpdateProgressNotPost(u)
    \/ \E u \in Users, body \in Bodies : UpdateProgressRejected(u, body)
    \/ \E u \in Users, body \in Bodies : UpdateProgress(u, body)

Spec == Init /\ [][Next]_vars

(***************************************************************************)
(* update_progress with requests in flight together.  Each statement sent  *)
(* to the database is one step: the SELECT and the INSERT of               *)
(* get_or_create, and the UPDATE of save().  The view holds no lock and    *)
(* opens no transaction around them.                                       *)
(***************************************************************************)
ConcUsers == {1, 2}

ConcBodies ==
    {Object(JNum(Num(1)), JNum(w), JNum(Num(0 - 1))) : w \in {Num(300), Num(590)}}

\* Lines 343-357: parse the body, fetch the video, settle duration and
\* watched_time.
Begin(p, u, body) ==
    /\ req[p].pc = "idle"
    /\ ParseStatus(body) = 0
    /\ PyInt(body.video_id).val \in VideoIds
    /\ LET v == PyInt(body.video_id).val
       IN  req' = [req EXCEPT ![p] =
                     [pc |-> "get", user |-> u, body |-> body, video |-> v,
                      watched_time |-> ClampWatched(PyFloat(body.watched_time).val),
                      duration |-> EffectiveDuration(PyFloat(body.duration).val, v),
                      row |-> NewRow(0, 0, 0), conflict |-> @.conflict]]
    /\ UNCHANGED <<progress, nextId, last>>
    /\ UNCHANGED <<navVars, courseVars, extraVars>>

\* get_or_create, the lookup: the row if there is one (more than one raises
\* MultipleObjectsReturned), else on to the insert.
GetRow(p) ==
    /\ req[p].pc = "get"
    /\ LET found == Rows(progress, req[p].user, req[p].video)
       IN  \/ /\ found = {}
              /\ req' = [req EXCEPT ![p].pc = "create"]
              /\ last' = last
           \/ /\ Cardinality(found) = 1
              /\ req' = [req EXCEPT ![p].pc = "save",
                                    ![p].row = CHOOSE r \in found : TRUE]
              /\ last' = last
           \/ /\ Cardinality(found) > 1
              /\ req' = [req EXCEPT ![p].pc = "done"]
              /\ last' = Response(req[p].user, req[p].body, 500,
                                  "MultipleObjectsReturned", req[p].video,
                                  req[p].duration, 0, Num(0), FALSE)
    /\ UNCHANGED <<progress, nextId>>
    /\ UNCHANGED <<navVars, courseVars, extraVars>>

\* get_or_create, the insert with defaults: refused by the unique
\* constraint when another request got there first, and then looked up again.
CreateRow(p) ==
    /\ req[p].pc = "create"
    /\ IF UniqueViolation(progress, req[p].user, req[p].video)
       THEN /\ req' = [req EXCEPT ![p].pc = "get", ![p].conflict = TRUE]
            /\ UNCHANGED <<progress, nextId>>
       ELSE /\ progress' = progress \cup {NewRow(nextId, req[p].user, req[p].video)}
            /\ nextId' = nextId + 1
            /\ req' = [req EXCEPT ![p].pc = "save",
                                  ![p].row = NewRow(nextId, req[p].user, req[p].video)]
    /\ last' = last
    /\ UNCHANGED <<navVars, courseVars, extraVars>>

\* Lines 365-381 on the row this request read: max, threshold, save(), and
\* the response.
SaveAndRespond(p) ==
    /\ req[p].pc = "save"
    /\ LET w2 == NewWatched(req[p].row.watched_time, req[p].watched_time)
           c2 == NewCompleted(req[p].row.is_completed, w2, req[p].duration)
           saved == [req[p].row EXCEPT !.watched_time = w2, !.is_completed = c2]
           pct == Percent(w2, req[p].duration)
       IN  /\ progress' = SaveRow(progress, saved)
           /\ req' = [req EXCEPT ![p].pc = "done", ![p].row = saved]
           /\ last' = Response(req[p].user, req[p].body,
                               IF pct.exc = "none" THEN 200 ELSE 500, pct.exc,
                               req[p].video, req[p].duration, pct.val, w2, c2)
    /\ nextId' = nextId
    /\ UNCHANGED <<navVars, courseVars, extraVars>>

NextConc ==
    \/ \E p \in Procs, u \in ConcUsers, body \in ConcBodies : Begin(p, u, body)
    \/ \E p \in Procs : GetRow(p)
    \/ \E p \in Procs : CreateRow(p)
    \/ \E p \in Procs : SaveAndRespond(p)

SpecConc == Init /\ [][NextConc]_vars

(***************************************************************************)
(* Sequence navigation: module_item_detail and _get_sequence_neighbors     *)
(* over the Module and ModuleItem tables.  Modules 1 and 2 belong to       *)
(* course 1 and module 3 to course 2; positions are free, so they collide. *)
(***************************************************************************)
Courses == {1, 2}

ModuleCourse == (1 :> 1) @@ (2 :> 1) @@ (3 :> 2)

ModuleIds == DOMAIN ModuleCourse

Positions == {1, 2}

\* ModuleItem rows in the store.
MaxItems == 3

ItemIds == 1..MaxItems

ModuleStores ==
    {{[id |-> m, course |-> ModuleCourse[m], position |-> ps[m]] : m \in ModuleIds} :
        ps \in [ModuleIds -> Positions]}

ItemStores ==
    {{[id |-> i, module |-> ms[i], position |-> ps[i]] : i \in ItemIds} :
        ms \in [ItemIds -> ModuleIds], ps \in [ItemIds -> Positions]}

ModuleOf(mods, it) == CHOOSE m \in mods : m.id = it.module

\* order_by("module__position", "module_id", "position", "id") with the
\* module id left out.
OrderKeyNoModuleId(mods, it) ==
    <<ModuleOf(mods, it).position, 0, it.position, it.id>>

\* order_by("module__position", "module_id", "position", "id")
OrderKey(mods, it) ==
    <<ModuleOf(mods, it).position, it.module, it.position, it.id>>

\* The database's ORDER BY on a four-column key.
KeyLess(a, b) ==
    \/ a[1] < b[1]
    \/ a[1] = b[1] /\ a[2] < b[2]
    \/ a[1] = b[1] /\ a[2] = b[2] /\ a[3] < b[3]
    \/ a[1] = b[1] /\ a[2] = b[2] /\ a[3] = b[3] /\ a[4] < b[4]

\* ModuleItem.objects.all(): the filter on the course left out.
ItemsOfAnyCourse(mods, its, c) == its

\* ModuleItem.objects.filter(module__course=course)
ItemsOfCourse(mods, its, c) == {it \in its : ModuleOf(mods, it).course = c}

\* list(... .order_by(...)): the rows, smallest key first.
RECURSIVE Ordered(_, _)
Ordered(mods, S) ==
    IF S = {} THEN << >>
    ELSE LET first == CHOOSE x \in S :
                        \A y \in S \ {x} : KeyLess(OrderKey(mods, x), OrderKey(mods, y))
         IN  <<first>> \o Ordered(mods, S \ {first})

\* _get_sequence_neighbors without the index > 0 guard: items[index - 1]
\* with index 0 is items[-1], the last item.
GetSequenceNeighborsWrap(mods, its, c, current) ==
    LET seq == Ordered(mods, ItemsOfCourse(mods, its, c))
        hits == {i \in 1..Len(seq) : seq[i].id = current}
    IN  IF hits = {} THEN <<None, None>>
        ELSE LET index == CHOOSE i \in hits : \A j \in hits : i <= j
             IN  <<IF index > 1 THEN seq[index - 1].id ELSE seq[Len(seq)].id,
                   IF index < Len(seq) THEN seq[index + 1].id ELSE None>>

\* _get_sequence_neighbors with next(..., -1) in place of the StopIteration
\* handler: an item that is not found gets the first item as its next one.
GetSequenceNeighborsDefaultIndex(mods, its, c, current) ==
    LET seq == Ordered(mods, ItemsOfCourse(mods, its, c))
        hits == {i \in 1..Len(seq) : seq[i].id = current}
    IN  IF hits = {} THEN <<None, IF Len(seq) > 0 THEN seq[1].id ELSE None>>
        ELSE LET index == CHOOSE i \in hits : \A j \in hits : i <= j
             IN  <<IF index > 1 THEN seq[index - 1].id ELSE None,
                   IF index < Len(seq) THEN seq[index + 1].id ELSE None>>

\* _get_sequence_neighbors: the ids of the previous and the next item, None
\* at either end, (None, None) when the item is not in the list.
GetSequenceNeighbors(mods, its, c, current) ==
    LET seq == Ordered(mods, ItemsOfCourse(mods, its, c))
        hits == {i \in 1..Len(seq) : seq[i].id = current}
    IN  IF hits = {} THEN <<None, None>>
        ELSE LET index == CHOOSE i \in hits : \A j \in hits : i <= j
             IN  <<IF index > 1 THEN seq[index - 1].id ELSE None,
                   IF index < Len(seq) THEN seq[index + 1].id ELSE None>>

InitNav ==
    /\ progress = {}
    /\ nextId = 1
    /\ last = NoResponse
    /\ req = [p \in Procs |-> IdleReq]
    /\ modules \in ModuleStores
    /\ items \in ItemStores
    /\ nav = NoNav
    /\ enrollments = {}
    /\ submissions = {}
    /\ resp = NoResp
    /\ enrollReq = [p \in Procs |-> IdleEnroll]
    /\ submitReq = [p \in Procs |-> IdleSubmit]
    /\ catalog = NoCatalog
    /\ users = {}
    /\ shown = NoDetail
    /\ signupResp = NoSignup

\* @login_required: an anonymous request is redirected to the login page.
ModuleItemDetailAnonymous ==
    /\ nav' = NavResult(0, 0, 302, None, None)
    /\ UNCHANGED <<modules, items, progVars, courseVars, extraVars>>

\* get_object_or_404 twice: no such course, or no such item in a module of
\* the course.
ModuleItemDetailNotFound(c, i) ==
    /\ \/ c \notin Courses
       \/ \A it \in ItemsOfCourse(modules, items, c) : it.id # i
    /\ nav' = NavResult(c, i, 404, None, None)
    /\ UNCHANGED <<modules, items, progVars, courseVars, extraVars>>

\* module_item_detail: the item's page with its previous and next links.
ModuleItemDetail(c, i) ==
    /\ c \in Courses
    /\ \E it \in ItemsOfCourse(modules, items, c) : it.id = i
    /\ LET nb == GetSequenceNeighbors(modules, items, c, i)
       IN  nav' = NavResult(c, i, 200, nb[1], nb[2])
    /\ UNCHANGED <<modules, items, progVars, courseVars, extraVars>>

NextNav ==
    \/ ModuleItemDetailAnonymous
    \/ \E c \in Courses \cup {3}, i \in ItemIds \cup {MaxItems + 1} :
          ModuleItemDetailNotFound(c, i)
    \/ \E c \in Courses, i \in ItemIds : ModuleItemDetail(c, i)

SpecNav == InitNav /\ [][NextNav]_vars

(***************************************************************************)
(* module_item_detail in two steps, the lookups of lines 218-221 and the   *)
(* call on line 224, with a ModuleItem deleted through the admin site in   *)
(* between; and _get_sequence_neighbors applied to any course and item.    *)
(* The order of the sequence plays no part here: all positions are 1.      *)
(***************************************************************************)
InitNavDelete ==
    /\ InitNav
    /\ \A m \in modules : m.position = 1
    /\ \A it \in items : it.position = 1

\* Lines 218-221: both get_object_or_404 calls found their rows.
LookupItem(c, i) ==
    /\ c \in Courses
    /\ \E it \in ItemsOfCourse(modules, items, c) : it.id = i
    /\ nav' = [NavResult(c, i, 0, None, None) EXCEPT !.op = "lookup"]
    /\ UNCHANGED <<modules, items, progVars, courseVars, extraVars>>

\* ModuleItemAdmin: a row of the ModuleItem table is deleted.
DeleteItem(i) ==
    /\ \E it \in items : it.id = i
    /\ items' = {it \in items : it.id # i}
    /\ UNCHANGED <<modules, nav, progVars, courseVars, extraVars>>

\* Lines 224-283: the neighbours of the item looked up, over the table as
\* it is now, and the page.
ShowItem ==
    /\ nav.op = "lookup"
    /\ LET nb == GetSequenceNeighbors(modules, items, nav.course, nav.item)
       IN  nav' = NavResult(nav.course, nav.item, 200, nb[1], nb[2])
    /\ UNCHANGED <<modules, items, progVars, courseVars, extraVars>>

\* _get_sequence_neighbors(course, current_item) for any course and any
\* item of the table.
CallGetSequenceNeighbors(c, i) ==
    /\ \E it \in items : it.id = i
    /\ LET nb == GetSequenceNeighbors(modules, items, c, i)
       IN  nav' = [NavResult(c, i, 0, nb[1], nb[2]) EXCEPT !.op = "_get_sequence_neighbors"]
    /\ UNCHANGED <<modules, items, progVars, courseVars, extraVars>>

NextNavDelete ==
    \/ \E c \in Courses, i \in ItemIds : LookupItem(c, i)
    \/ \E i \in ItemIds : DeleteItem(i)
    \/ ShowItem
    \/ \E c \in Courses, i \in ItemIds : CallGetSequenceNeighbors(c, i)

SpecNavDelete == InitNavDelete /\ [][NextNavDelete]_vars

(***************************************************************************)
(* Courses, sections, enrollments and the teacher check of courses/views.  *)
(* Sections 1 and 2 belong to course 1 and section 3 to course 2;          *)
(* assignment 1 belongs to course 1 and assignment 2 to course 2.  User 0  *)
(* is the anonymous user; user 2 has the site-wide staff flag.             *)
(***************************************************************************)
Anonymous == 0

Accounts == {1, 2}

IsStaff == (1 :> FALSE) @@ (2 :> TRUE)

SectionCourse == (1 :> 1) @@ (2 :> 1) @@ (3 :> 2)

SectionIds == DOMAIN SectionCourse

AssignmentCourse == (1 :> 1) @@ (2 :> 2)

AssignmentIds == DOMAIN AssignmentCourse

\* Role and EnrollmentState, as far as the views tell them apart.
EnrollmentKinds ==
    {<<"teacher", "active">>, <<"teacher", "pending">>, <<"student", "active">>}

\* Enrollment rows in a store the checks start from.
MaxEnrollments == 2

EnrollmentRow(id, u, sec, role, state) ==
    [id |-> id, user |-> u, section |-> sec, role |-> role, enrollment_state |-> state]

\* Every Enrollment table of at most MaxEnrollments rows, one row at most
\* for a user and a section (unique_user_section_enrollment).
EnrollmentStores ==
    UNION {{{EnrollmentRow(Cardinality(SectionIds) * (p[1] - 1) + p[2], p[1], p[2],
                           k[p][1], k[p][2]) : p \in P} :
              k \in [P -> EnrollmentKinds]} :
           P \in {Q \in SUBSET (Accounts \X SectionIds) : Cardinality(Q) <= MaxEnrollments}}

\* _user_is_teacher_for_course with the enrollment_state filter left out.
UserIsTeacherAnyState(user, course) ==
    /\ user # Anonymous
    /\ \E e \in enrollments :
          /\ e.user = user
          /\ SectionCourse[e.section] = course
          /\ e.role = "teacher"

\* _user_is_teacher_for_course with the section__course filter left out.
UserIsTeacherAnyCourse(user, course) ==
    /\ user # Anonymous
    /\ \E e \in enrollments :
          /\ e.user = user
          /\ e.role = "teacher"
          /\ e.enrollment_state = "active"

\* _user_is_teacher_for_course as module_item_detail computes is_teacher:
\* staff passes.
UserIsStaffOrTeacher(user, course) ==
    /\ user # Anonymous
    /\ \/ IsStaff[user]
       \/ \E e \in enrollments :
             /\ e.user = user
             /\ SectionCourse[e.section] = course
             /\ e.role = "teacher"
             /\ e.enrollment_state = "active"

\* _user_is_teacher_for_course
UserIsTeacherForCourse(user, course) ==
    /\ user # Anonymous
    /\ \E e \in enrollments :
          /\ e.user = user
          /\ SectionCourse[e.section] = course
          /\ e.role = "teacher"
          /\ e.enrollment_state = "active"

(***************************************************************************)
(* Form fields and decimals.  A form field is missing or a text, a text a  *)
(* sequence of characters.  A decimal is a coefficient and a number of     *)
(* decimal places.                                                         *)
(***************************************************************************)
FormMissing == [t |-> "missing", chars |-> << >>]

FormText(chars) == [t |-> "text", chars |-> chars]

NoneValue == [t |-> "none", chars |-> << >>]

\* Python's truth of request.POST.get(...): a non-empty string.
Truthy(f) == f.t = "text" /\ f.chars # << >>

\* request.POST.get(...) or None
OrNone(f) == IF Truthy(f) THEN f ELSE NoneValue

NoScore == [k |-> "none", coef |-> 0, places |-> 0]

Dec(c, p) == [k |-> "dec", coef |-> c, places |-> p]

DigitChars == <<"0", "1", "2", "3", "4", "5", "6", "7", "8", "9">>

IsDigit(ch) == \E i \in 1..10 : DigitChars[i] = ch

DigitOf(ch) == (CHOOSE i \in 1..10 : DigitChars[i] = ch) - 1

RECURSIVE DigitsValue(_)
DigitsValue(cs) ==
    IF cs = << >> THEN 0
    ELSE 10 * DigitsValue(SubSeq(cs, 1, Len(cs) - 1)) + DigitOf(cs[Len(cs)])

RECURSIVE Pow10(_)
Pow10(n) == IF n = 0 THEN 1 ELSE 10 * Pow10(n - 1)

RECURSIVE Strip(_)
Strip(cs) ==
    IF cs = << >> THEN cs
    ELSE IF cs[1] = " " THEN Strip(Tail(cs))
    ELSE IF cs[Len(cs)] = " " THEN Strip(SubSeq(cs, 1, Len(cs) - 1))
    ELSE cs

\* Decimal(raw_score) for a text of signs, digits, points, blanks and
\* letters: the decimal, or InvalidOperation.
DecimalOf(chars) ==
    LET cs == Strip(chars)
        signed == cs # << >> /\ cs[1] \in {"+", "-"}
        body == IF signed THEN Tail(cs) ELSE cs
        points == {i \in 1..Len(body) : body[i] = "."}
        wellFormed ==
            /\ \A i \in 1..Len(body) : IsDigit(body[i]) \/ body[i] = "."
            /\ Cardinality(points) <= 1
            /\ \E i \in 1..Len(body) : IsDigit(body[i])
        digits == SelectSeq(body, IsDigit)
        places == IF points = {} THEN 0 ELSE Len(body) - (CHOOSE i \in points : TRUE)
        sign == IF signed /\ cs[1] = "-" THEN 0 - 1 ELSE 1
    IN  IF wellFormed
        THEN [exc |-> "", val |-> Dec(sign * DigitsValue(digits), places)]
        ELSE [exc |-> "InvalidOperation", val |-> NoScore]

\* Submission.score: max_digits
MaxDigits == 5

\* Submission.score: decimal_places
DecimalPlaces == 2

\* The decimal context's rounding, ROUND_HALF_EVEN, of c / m.
RoundHalfEven(c, m) ==
    LET a == IF c < 0 THEN 0 - c ELSE c
        q == a \div m
        r == a % m
        up == 2 * r > m \/ (2 * r = m /\ q % 2 = 1)
        n == IF up THEN q + 1 ELSE q
    IN  IF c < 0 THEN 0 - n ELSE n

\* What save() hands to the database for a DecimalField: the value
\* quantized to decimal_places under a precision of max_digits, or
\* InvalidOperation when it has more digits than that.
FormatNumber(d) ==
    IF d.k = "none" THEN [exc |-> "", val |-> NoScore]
    ELSE LET q == IF d.places <= DecimalPlaces
                  THEN d.coef * Pow10(DecimalPlaces - d.places)
                  ELSE RoundHalfEven(d.coef, Pow10(d.places - DecimalPlaces))
         IN  IF q >= Pow10(MaxDigits) \/ 0 - q >= Pow10(MaxDigits)
             THEN [exc |-> "InvalidOperation", val |-> NoScore]
             ELSE [exc |-> "", val |-> Dec(q, DecimalPlaces)]

(***************************************************************************)
(* submission_list and grade_submission.                                   *)
(***************************************************************************)
SubmissionRow(id, a, u, attempt, score, feedback, state) ==
    [id |-> id, assignment |-> a, user |-> u, attempt |-> attempt, score |-> score,
     feedback |-> feedback, workflow_state |-> state]

\* Two submissions to assignment 1 and one to assignment 2, none graded.
SubmittedWork ==
    {SubmissionRow(1, 1, 1, 1, NoScore, NoneValue, "submitted"),
     SubmissionRow(2, 1, 2, 1, NoScore, NoneValue, "submitted"),
     SubmissionRow(3, 2, 2, 1, NoScore, NoneValue, "submitted")}

NotAllowed == "You are not allowed to grade this assignment."

InvalidScore == "Invalid score value."

GradeSaved == "Grade has been saved."

\* submission_list: 404 without the assignment, a redirect with an error
\* for anyone but a teacher of its course, the list otherwise.
SubmissionList(u, a) ==
    /\ resp' = CourseResp("submission_list", u, "GET",
                 <<IF a \in AssignmentIds THEN AssignmentCourse[a] ELSE 0, a, 0>>,
                 FormMissing, FormMissing,
                 IF a \notin AssignmentIds THEN 404
                 ELSE IF ~UserIsTeacherForCourse(u, AssignmentCourse[a]) THEN 302
                 ELSE 200,
                 IF a \in AssignmentIds /\ ~UserIsTeacherForCourse(u, AssignmentCourse[a])
                 THEN <<NotAllowed>> ELSE << >>)
    /\ UNCHANGED <<enrollments, submissions, enrollReq, progVars, navVars, extraVars>>

\* grade_submission, lines 242-258 of a POST: the row as it is saved.
GradedRow(row, raw_score, feedback) ==
    [row EXCEPT
       !.score = IF Truthy(raw_score)
                 THEN IF DecimalOf(raw_score.chars).exc = ""
                      THEN DecimalOf(raw_score.chars).val
                      ELSE row.score
                 ELSE NoScore,
       !.feedback = OrNone(feedback),
       !.workflow_state = "graded"]

\* grade_submission: the messages of a POST that was saved.
GradeMessages(raw_score) ==
    IF Truthy(raw_score) /\ DecimalOf(raw_score.chars).exc # ""
    THEN <<InvalidScore, GradeSaved>>
    ELSE <<GradeSaved>>

\* get_object_or_404(Submission, id=submission_id) with the assignment left
\* out of the lookup.
FindSubmissionAnyAssignment(table, s, a) == {r \in table : r.id = s}

\* get_object_or_404(Submission, id=submission_id, assignment=assignment):
\* the rows the lookup matches.
FindSubmission(table, s, a) == {r \in table : r.id = s /\ r.assignment = a}

\* grade_submission
GradeSubmission(u, method, a, s, raw_score, feedback) ==
    /\ LET c == IF a \in AssignmentIds THEN AssignmentCourse[a] ELSE 0
           found == FindSubmission(submissions, s, a)
           Answer(status, msgs) ==
               CourseResp("grade_submission", u, method, <<c, a, s>>, raw_score, feedback,
                          status, msgs)
       IN  IF a \notin AssignmentIds
           THEN resp' = Answer(404, << >>) /\ submissions' = submissions
           ELSE IF ~UserIsTeacherForCourse(u, c)
           THEN resp' = Answer(302, <<NotAllowed>>) /\ submissions' = submissions
           ELSE IF found = {}
           THEN resp' = Answer(404, << >>) /\ submissions' = submissions
           ELSE IF method # "POST"
           THEN resp' = Answer(200, << >>) /\ submissions' = submissions
           ELSE LET row == CHOOSE r \in found : TRUE
                    graded == GradedRow(row, raw_score, feedback)
                    stored == FormatNumber(graded.score)
                IN  IF stored.exc # ""
                    THEN /\ resp' = Answer(500, << >>)
                         /\ submissions' = submissions
                    ELSE /\ resp' = Answer(302, GradeMessages(raw_score))
                         /\ submissions' =
                              {IF r.id = row.id THEN [graded EXCEPT !.score = stored.val]
                                                ELSE r : r \in submissions}
    /\ UNCHANGED <<enrollments, enrollReq, progVars, navVars, extraVars>>

Score85 == FormText(<<"8", "5", ".", "5">>)

ScoreThreePlaces == FormText(<<"8", "5", ".", "5", "5", "5">>)

ScoreThousand == FormText(<<"1", "0", "0", "0">>)

ScoreLetters == FormText(<<"a", "b", "c">>)

FeedbackOk == FormText(<<"o", "k">>)

\* The teacher check over every small Enrollment table.
InitGate ==
    /\ progress = {}
    /\ nextId = 1
    /\ last = NoResponse
    /\ req = [p \in Procs |-> IdleReq]
    /\ modules = {}
    /\ items = {}
    /\ nav = NoNav
    /\ enrollments \in EnrollmentStores
    /\ submissions = SubmittedWork
    /\ resp = NoResp
    /\ enrollReq = [p \in Procs |-> IdleEnroll]
    /\ submitReq = [p \in Procs |-> IdleSubmit]
    /\ catalog = NoCatalog
    /\ users = {}
    /\ shown = NoDetail
    /\ signupResp = NoSignup

NextGate ==
    \/ \E u \in Accounts \cup {Anonymous}, a \in AssignmentIds \cup {3} :
          SubmissionList(u, a)
    \/ \E u \in Accounts \cup {Anonymous}, t \in {<<1, 1>>, <<2, 3>>} :
          GradeSubmission(u, "GET", t[1], t[2], FormMissing, FormMissing)
    \/ \E u \in Accounts \cup {Anonymous} :
          GradeSubmission(u, "POST", 1, 1, Score85, FeedbackOk)

SpecGate == InitGate /\ [][NextGate]_vars

\* Grading with user 1 an active teacher of course 1 and user 2 a pending
\* teacher of course 1 and an active teacher of course 2.
GradeEnrollments ==
    {EnrollmentRow(1, 1, 1, "teacher", "active"),
     EnrollmentRow(5, 2, 2, "teacher", "pending"),
     EnrollmentRow(6, 2, 3, "teacher", "active")}

InitGrade ==
    /\ progress = {}
    /\ nextId = 1
    /\ last = NoResponse
    /\ req = [p \in Procs |-> IdleReq]
    /\ modules = {}
    /\ items = {}
    /\ nav = NoNav
    /\ enrollments = GradeEnrollments
    /\ submissions = SubmittedWork
    /\ resp = NoResp
    /\ enrollReq = [p \in Procs |-> IdleEnroll]
    /\ submitReq = [p \in Procs |-> IdleSubmit]
    /\ catalog = NoCatalog
    /\ users = {}
    /\ shown = NoDetail
    /\ signupResp = NoSignup

\* An existing submission of assignment 1, twice; a submission of another
\* assignment; an assignment that does not exist.
GradeTargets == {<<1, 1>>, <<1, 2>>, <<1, 3>>, <<3, 1>>}

\* One field varied at a time.
GradeInputs ==
    {<<sc, FeedbackOk>> :
        sc \in {FormText(<< >>), Score85, ScoreThreePlaces, ScoreThousand, ScoreLetters}}
    \cup {<<Score85, fb>> : fb \in {FormMissing, FormText(<< >>)}}

NextGrade ==
    \/ \E u \in Accounts \cup {Anonymous}, t \in GradeTargets :
          GradeSubmission(u, "GET", t[1], t[2], FormMissing, FormMissing)
    \/ \E u \in Accounts \cup {Anonymous}, t \in GradeTargets, in \in GradeInputs :
          GradeSubmission(u, "POST", t[1], t[2], in[1], in[2])

SpecGrade == InitGrade /\ [][NextGrade]_vars

(***************************************************************************)
(* enroll_course.  Course 3 is a course without sections; course 4 does    *)
(* not exist.                                                              *)
(***************************************************************************)
CoursesOffered == {1, 2, 3}

\* Section.objects.filter(course=course).first() returning the row of the
\* highest primary key.
LastSection(c) ==
    LET secs == {sec \in SectionIds : SectionCourse[sec] = c}
    IN  IF secs = {} THEN None
        ELSE CHOOSE sec \in secs : \A other \in secs : other <= sec

\* Section.objects.first(), the filter on the course left out.
FirstSectionUnfiltered(c) ==
    CHOOSE sec \in SectionIds : \A other \in SectionIds : sec <= other

\* Section.objects.filter(course=course).first(): the row of the lowest
\* primary key, None without rows.
FirstSection(c) ==
    LET secs == {sec \in SectionIds : SectionCourse[sec] = c}
    IN  IF secs = {} THEN None
        ELSE CHOOSE sec \in secs : \A other \in secs : sec <= other

\* Enrollment.objects.filter(user=..., section=...).exists() with a filter
\* on the role added.
HasStudentEnrollment(u, sec) ==
    \E e \in enrollments : e.user = u /\ e.section = sec /\ e.role = "student"

\* Enrollment.objects.filter(user=request.user, section=section).exists()
HasEnrollment(u, sec) ==
    \E e \in enrollments : e.user = u /\ e.section = sec

\* The primary key of the next row.
NextEnrollmentId ==
    IF enrollments = {} THEN 1
    ELSE 1 + (CHOOSE i \in {e.id : e \in enrollments} :
                 \A e \in enrollments : e.id <= i)

\* unique_user_section_enrollment
EnrollmentConflict(u, sec) ==
    \E e \in enrollments : e.user = u /\ e.section = sec

\* "이 강의에는 등록할 수 있는 분반이 없습니다."
NoSectionMessage == "no section to enroll in"

\* "이미 수강 중인 강의입니다."
AlreadyEnrolledMessage == "already enrolled"

\* "수강신청이 완료되었습니다."
EnrolledMessage == "enrollment complete"

EnrollAnswer(u, method, c, status, msgs) ==
    CourseResp("enroll_course", u, method, <<c, 0, 0>>, FormMissing, FormMissing,
               status, msgs)

\* enroll_course, one request from start to end.
EnrollCourse(u, method, c) ==
    /\ IF u = Anonymous \/ method # "POST"
       THEN resp' = EnrollAnswer(u, method, c, 302, << >>) /\ enrollments' = enrollments
       ELSE IF c \notin CoursesOffered
       THEN resp' = EnrollAnswer(u, method, c, 404, << >>) /\ enrollments' = enrollments
       ELSE IF FirstSection(c) = None
       THEN /\ resp' = EnrollAnswer(u, method, c, 302, <<NoSectionMessage>>)
            /\ enrollments' = enrollments
       ELSE IF HasEnrollment(u, FirstSection(c))
       THEN /\ resp' = EnrollAnswer(u, method, c, 302, <<AlreadyEnrolledMessage>>)
            /\ enrollments' = enrollments
       ELSE IF EnrollmentConflict(u, FirstSection(c))
       THEN resp' = EnrollAnswer(u, method, c, 500, << >>) /\ enrollments' = enrollments
       ELSE /\ resp' = EnrollAnswer(u, method, c, 302, <<EnrolledMessage>>)
            /\ enrollments' = enrollments \cup
                 {EnrollmentRow(NextEnrollmentId, u, FirstSection(c), "student", "active")}
    /\ UNCHANGED <<submissions, enrollReq, progVars, navVars, extraVars>>

InitEnroll ==
    /\ progress = {}
    /\ nextId = 1
    /\ last = NoResponse
    /\ req = [p \in Procs |-> IdleReq]
    /\ modules = {}
    /\ items = {}
    /\ nav = NoNav
    /\ enrollments \in EnrollmentStores
    /\ submissions = {}
    /\ resp = NoResp
    /\ enrollReq = [p \in Procs |-> IdleEnroll]
    /\ submitReq = [p \in Procs |-> IdleSubmit]
    /\ catalog = NoCatalog
    /\ users = {}
    /\ shown = NoDetail
    /\ signupResp = NoSignup

NextEnroll ==
    \/ \E c \in CoursesOffered : EnrollCourse(Anonymous, "POST", c)
    \/ \E u \in Accounts : EnrollCourse(u, "GET", 1)
    \/ \E u \in Accounts, c \in {1, 3, 4} : EnrollCourse(u, "POST", c)

SpecEnroll == InitEnroll /\ [][NextEnroll]_vars

(***************************************************************************)
(* enroll_course with requests interleaved: the queries up to the          *)
(* existence check of lines 105-108, then the insert of lines 114-119.     *)
(***************************************************************************)
InitEnrollConc ==
    /\ InitEnroll
    /\ \A e \in enrollments : e.user = 2

\* Lines 95-112 of a POST by a logged-in user for a course with a section:
\* answered "already enrolled", or on to the insert.
EnrollCheck(p, u, c) ==
    /\ enrollReq[p].pc = "idle"
    /\ FirstSection(c) # None
    /\ IF HasEnrollment(u, FirstSection(c))
       THEN /\ resp' = EnrollAnswer(u, "POST", c, 302, <<AlreadyEnrolledMessage>>)
            /\ enrollReq' = [enrollReq EXCEPT ![p] =
                 [pc |-> "done", user |-> u, course |-> c, section |-> FirstSection(c)]]
       ELSE /\ resp' = resp
            /\ enrollReq' = [enrollReq EXCEPT ![p] =
                 [pc |-> "create", user |-> u, course |-> c, section |-> FirstSection(c)]]
    /\ UNCHANGED <<enrollments, submissions, progVars, navVars, extraVars>>

\* Lines 114-122: Enrollment.objects.create; the IntegrityError of a row
\* that is there by now is not caught.
EnrollCreate(p) ==
    /\ enrollReq[p].pc = "create"
    /\ enrollReq' = [enrollReq EXCEPT ![p].pc = "done"]
    /\ IF EnrollmentConflict(enrollReq[p].user, enrollReq[p].section)
       THEN /\ resp' = EnrollAnswer(enrollReq[p].user, "POST", enrollReq[p].course, 500, << >>)
            /\ enrollments' = enrollments
       ELSE /\ resp' = EnrollAnswer(enrollReq[p].user, "POST", enrollReq[p].course, 302,
                                    <<EnrolledMessage>>)
            /\ enrollments' = enrollments \cup
                 {EnrollmentRow(NextEnrollmentId, enrollReq[p].user, enrollReq[p].section,
                                "student", "active")}
    /\ UNCHANGED <<submissions, progVars, navVars, extraVars>>

NextEnrollConc ==
    \/ \E p \in Procs, u \in ConcUsers, c \in {1, 2} : EnrollCheck(p, u, c)
    \/ \E p \in Procs : EnrollCreate(p)

SpecEnrollConc == InitEnrollConc /\ [][NextEnrollConc]_vars

(***************************************************************************)
(* submit_assignment (courses/views.py), concurrently with itself and in   *)
(* sequence with grade_submission.  A request reads the highest attempt of the user for  *)
(* the assignment and then inserts the next one; the two statements are    *)
(* not in one transaction, so other requests run in between.               *)
(***************************************************************************)
\* Rows of the Submission table.
MaxSubmissions == 3

\* Two requests at a time.
SubmitProcs == {p \in Procs : p <= 2}

\* Who submits what: user 1 to both assignments, user 2 to assignment 1.
SubmitPairs == {<<1, 1>>, <<1, 2>>, <<2, 1>>}

\* Who grades what: each user the assignment of the course they teach.
Graders == {<<1, 1>>, <<2, 2>>}

LoginToSubmit == "You must be logged in to submit this assignment."

Submitted == "Your assignment has been submitted."

\* Submission.objects.filter(assignment=assignment, user=request.user)
SubmissionsOf(table, a, u) == {r \in table : r.assignment = a /\ r.user = u}

\* .order_by("-attempt").first(), then last_submission.attempt + 1 if there
\* is one, else 1.
NextAttempt(table, a, u) ==
    IF SubmissionsOf(table, a, u) = {} THEN 1
    ELSE (CHOOSE r \in SubmissionsOf(table, a, u) :
             \A o \in SubmissionsOf(table, a, u) : o.attempt <= r.attempt).attempt + 1

\* No constraint on (assignment, user, attempt).
SubmissionConflictNotEnforced(table, a, u, attempt) == FALSE

\* unique_assignment_user_attempt: the insert is refused when a row with
\* the same assignment, user and attempt exists.
SubmissionConflict(table, a, u, attempt) ==
    \E r \in table : r.assignment = a /\ r.user = u /\ r.attempt = attempt

\* The next value of the id column.
NextSubmissionId(table) == Cardinality(table) + 1

\* Submission.objects.create without workflow_state: the default of the
\* field.
NewSubmissionDefaultState(id, a, u, attempt) ==
    SubmissionRow(id, a, u, attempt, NoScore, NoneValue, "unsubmitted")

\* Submission.objects.create(..., attempt=next_attempt, ...,
\* workflow_state="submitted")
NewSubmission(id, a, u, attempt) ==
    SubmissionRow(id, a, u, attempt, NoScore, NoneValue, "submitted")

SubmitAnswer(u, method, a, s, status, msgs) ==
    CourseResp("submit_assignment", u, method,
               <<IF a \in AssignmentIds THEN AssignmentCourse[a] ELSE 0, a, s>>,
               FormMissing, FormMissing, status, msgs)

\* get_object_or_404(Assignment, id=assignment_id)
SubmitAssignmentNotFound(u, method, a) ==
    /\ a \notin AssignmentIds
    /\ resp' = SubmitAnswer(u, method, a, 0, 404, << >>)
    /\ UNCHANGED <<enrollments, submissions, enrollReq, submitReq, catalog, users, shown, signupResp,
                   progVars, navVars>>

\* An anonymous request is redirected with an error message.
SubmitAssignmentAnonymous(method, a) ==
    /\ a \in AssignmentIds
    /\ resp' = SubmitAnswer(Anonymous, method, a, 0, 302, <<LoginToSubmit>>)
    /\ UNCHANGED <<enrollments, submissions, enrollReq, submitReq, catalog, users, shown, signupResp,
                   progVars, navVars>>

\* Anything but a POST is redirected.
SubmitAssignmentNotPost(u, a) ==
    /\ a \in AssignmentIds
    /\ resp' = SubmitAnswer(u, "GET", a, 0, 302, << >>)
    /\ UNCHANGED <<enrollments, submissions, enrollReq, submitReq, catalog, users, shown, signupResp,
                   progVars, navVars>>

\* Lines 134-140 of a POST by a logged-in user: the attempt number.
SubmitRead(p, u, a) ==
    /\ submitReq[p].pc = "idle"
    /\ a \in AssignmentIds
    /\ Cardinality(submissions) < MaxSubmissions
    /\ submitReq' = [submitReq EXCEPT ![p] =
          [pc |-> "create", user |-> u, assignment |-> a,
           attempt |-> NextAttempt(submissions, a, u)]]
    /\ UNCHANGED <<enrollments, submissions, resp, enrollReq, catalog, users, shown, signupResp,
                   progVars, navVars>>

\* Lines 146-157: Submission.objects.create; the IntegrityError of an
\* attempt that is there by now is not caught.
SubmitCreate(p) ==
    /\ submitReq[p].pc = "create"
    /\ submitReq' = [submitReq EXCEPT ![p] = IdleSubmit]
    /\ LET u == submitReq[p].user
           a == submitReq[p].assignment
           n == submitReq[p].attempt
       IN  IF SubmissionConflict(submissions, a, u, n)
           THEN /\ resp' = SubmitAnswer(u, "POST", a, 0, 500, << >>)
                /\ submissions' = submissions
           ELSE /\ resp' = SubmitAnswer(u, "POST", a, NextSubmissionId(submissions), 302,
                                        <<Submitted>>)
                /\ submissions' = submissions \cup
                     {NewSubmission(NextSubmissionId(submissions), a, u, n)}
    /\ UNCHANGED <<enrollments, enrollReq, catalog, users, shown, signupResp, progVars, navVars>>

InitSubmit ==
    /\ progress = {}
    /\ nextId = 1
    /\ last = NoResponse
    /\ req = [p \in Procs |-> IdleReq]
    /\ modules = {}
    /\ items = {}
    /\ nav = NoNav
    /\ enrollments = GradeEnrollments
    /\ submissions = {}
    /\ resp = NoResp
    /\ enrollReq = [p \in Procs |-> IdleEnroll]
    /\ submitReq = [p \in Procs |-> IdleSubmit]
    /\ catalog = NoCatalog
    /\ users = {}
    /\ shown = NoDetail
    /\ signupResp = NoSignup

NextSubmit ==
    \/ \E u \in {1, Anonymous} : SubmitAssignmentNotFound(u, "POST", 3)
    \/ \E method \in {"GET", "POST"} : SubmitAssignmentAnonymous(method, 1)
    \/ \E t \in SubmitPairs : SubmitAssignmentNotPost(t[1], t[2])
    \/ \E p \in SubmitProcs, t \in SubmitPairs : SubmitRead(p, t[1], t[2])
    \/ \E p \in SubmitProcs : SubmitCreate(p)

SpecSubmit == InitSubmit /\ [][NextSubmit]_vars

\* Submitting and grading, one submit_assignment request at a time.
NextSubmitGrade ==
    \/ \E t \in SubmitPairs : SubmitRead(1, t[1], t[2])
    \/ SubmitCreate(1)
    \/ \E t \in Graders, s \in 1..MaxSubmissions :
          GradeSubmission(t[1], "POST", t[2], s, Score85, FeedbackOk)

SpecSubmitGrade == InitSubmit /\ [][NextSubmitGrade]_vars

(***************************************************************************)
(* Deleting a Term and deleting a Course (the DELETE of TermViewSet and    *)
(* CourseViewSet, and the delete pages of the admin).  The on_delete of    *)
(* every foreign key decides what goes with the row: Course.term is        *)
(* PROTECT, every other one on the way down from a Course is CASCADE.  A   *)
(* deletion and its cascade are one transaction.                           *)
(***************************************************************************)
TermIds == {1, 2, 3}

PageIds == {1, 2}

Ids(rows) == {r.id : r \in rows}

\* Term, Course(term), Section(course), Page(course), Assignment(course)
\* and Video(course) tables over the two courses; term 3 has no course.
CatalogStores ==
    {[terms |-> TermIds,
      courses |-> {[id |-> c, term |-> tm[c]] : c \in Courses},
      sections |-> {[id |-> sec, course |-> SectionCourse[sec]] : sec \in SectionIds},
      pages |-> {[id |-> pg, course |-> pc[pg]] : pg \in PageIds},
      assignments |-> {[id |-> a, course |-> AssignmentCourse[a]] : a \in AssignmentIds},
      videos |-> {[id |-> v, course |-> vc[v]] : v \in VideoIds}] :
        tm \in [Courses -> {1, 2}], pc \in [PageIds -> Courses], vc \in [VideoIds -> Courses]}

\* on_delete=models.DO_NOTHING in place of PROTECT.
TermProtectedNotEnforced(cat, t) == FALSE

\* Course.term, on_delete=models.PROTECT: a Course references the Term.
TermProtected(cat, t) == \E c \in cat.courses : c.term = t

\* on_delete=models.DO_NOTHING in place of CASCADE.
RemainingAll(rows, field, deleted) == rows

\* on_delete=models.CASCADE: the rows whose foreign key names none of the
\* deleted parents.
Remaining(rows, field, deleted) == {r \in rows : r[field] \notin deleted}

ProtectedError == "ProtectedError"

\* The answer to a DELETE: the id of the object in the first target field.
DeleteAnswer(op, id, status, msgs) ==
    CourseResp(op, 0, "DELETE", <<id, 0, 0>>, FormMissing, FormMissing, status, msgs)

\* Term.delete(): 404 without the row, ProtectedError and nothing deleted
\* while a Course references the Term, the row deleted otherwise.
DeleteTerm(t) ==
    /\ IF t \notin catalog.terms
       THEN /\ resp' = DeleteAnswer("delete_term", t, 404, << >>)
            /\ catalog' = catalog
       ELSE IF TermProtected(catalog, t)
       THEN /\ resp' = DeleteAnswer("delete_term", t, 500, <<ProtectedError>>)
            /\ catalog' = catalog
       ELSE /\ resp' = DeleteAnswer("delete_term", t, 204, << >>)
            /\ catalog' = [catalog EXCEPT !.terms = @ \ {t}]
    /\ UNCHANGED <<enrollments, submissions, enrollReq, submitReq, users, shown, signupResp, progVars, navVars>>

\* Course.delete(): the Course with its Sections, Modules, Pages,
\* Assignments and Videos, and the rows that reference those.
DeleteCourse(c) ==
    IF c \notin Ids(catalog.courses)
    THEN /\ resp' = DeleteAnswer("delete_course", c, 404, << >>)
         /\ UNCHANGED <<enrollments, submissions, enrollReq, submitReq, catalog, users, shown, signupResp,
                        progVars, navVars>>
    ELSE LET sections == Remaining(catalog.sections, "course", {c})
             pages == Remaining(catalog.pages, "course", {c})
             assignments == Remaining(catalog.assignments, "course", {c})
             videos == Remaining(catalog.videos, "course", {c})
             mods == Remaining(modules, "course", {c})
         IN  /\ resp' = DeleteAnswer("delete_course", c, 204, << >>)
             /\ catalog' = [catalog EXCEPT !.courses = Remaining(@, "id", {c}),
                                           !.sections = sections,
                                           !.pages = pages,
                                           !.assignments = assignments,
                                           !.videos = videos]
             /\ modules' = mods
             /\ items' = Remaining(items, "module", Ids(modules) \ Ids(mods))
             /\ enrollments' =
                  Remaining(enrollments, "section", Ids(catalog.sections) \ Ids(sections))
             /\ submissions' =
                  Remaining(submissions, "assignment",
                            Ids(catalog.assignments) \ Ids(assignments))
             /\ progress' =
                  Remaining(progress, "video", Ids(catalog.videos) \ Ids(videos))
             /\ UNCHANGED <<nextId, last, req, nav, enrollReq, submitReq, users, shown, signupResp>>

\* A store with rows in every table under both courses.
InitDelete ==
    /\ progress = {NewRow(v, 1, v) : v \in VideoIds}
    /\ nextId = 3
    /\ last = NoResponse
    /\ req = [p \in Procs |-> IdleReq]
    /\ modules = {[id |-> m, course |-> ModuleCourse[m], position |-> 1] : m \in ModuleIds}
    /\ items = {[id |-> i, module |-> ((i - 1) % Cardinality(ModuleIds)) + 1, position |-> 1] :
                   i \in ItemIds}
    /\ nav = NoNav
    /\ enrollments = GradeEnrollments
    /\ submissions = SubmittedWork
    /\ resp = NoResp
    /\ enrollReq = [p \in Procs |-> IdleEnroll]
    /\ submitReq = [p \in Procs |-> IdleSubmit]
    /\ catalog \in CatalogStores
    /\ users = {}
    /\ shown = NoDetail
    /\ signupResp = NoSignup

NextDelete ==
    \/ \E t \in TermIds : DeleteTerm(t)
    \/ \E c \in Courses \cup {3} : DeleteCourse(c)

SpecDelete == InitDelete /\ [][NextDelete]_vars

(***************************************************************************)
(* video_detail (core/views.py): the player page shows the progress of the *)
(* user on the video as round(watched / (video.duration or 1) * 100, 1).   *)
(***************************************************************************)
\* duration = video.duration or 1
DetailDuration(v) == IF VideoDuration[v] # 0 THEN VideoDuration[v] ELSE 1

\* round(watched / duration * 100, 1) for each finite watched time and each
\* video, in tenths, worked out once.
DetailTable == [w \in FiniteWatched, v \in VideoIds |-> PyRoundTenths(w, DetailDuration(v))]

\* progress_percent = round(watched / duration * 100, 1), in tenths; an
\* infinity and a NaN are returned as they are.
ProgressPercent(w, v) ==
    CASE w.k = "nan" -> NAN
      [] w.k = "inf" -> INF
      [] OTHER -> Num(DetailTable[w.v, v])

\* @login_required: an anonymous request is redirected to the login page.
VideoDetailAnonymous ==
    /\ shown' = DetailResult(0, 0, 302, Num(0))
    /\ UNCHANGED <<submitReq, catalog, users, signupResp, progVars, navVars, courseVars>>

\* get_object_or_404(Video, id=video_id)
VideoDetailNotFound(u, v) ==
    /\ v \notin VideoIds
    /\ shown' = DetailResult(u, v, 404, Num(0))
    /\ UNCHANGED <<submitReq, catalog, users, signupResp, progVars, navVars, courseVars>>

\* video_detail: the watched time on record, 0 without a record.
VideoDetail(u, v) ==
    /\ v \in VideoIds
    /\ LET found == Rows(progress, u, v)
           watched == IF found = {} THEN Num(0)
                      ELSE (CHOOSE r \in found : \A o \in found : r.id <= o.id).watched_time
       IN  shown' = DetailResult(u, v, 200, ProgressPercent(watched, v))
    /\ UNCHANGED <<submitReq, catalog, users, signupResp, progVars, navVars, courseVars>>

\* Reports that leave the duration to the store or give a shorter one.
DetailBodies ==
    {Object(JNum(Num(v)), JNum(w), JNum(d)) :
        v \in VideoIds, w \in {Num(174), Num(200), Num(590), INF},
        d \in {Num(0 - 1), Num(300)}}

NextDetail ==
    \/ \E u \in Users, body \in DetailBodies : UpdateProgress(u, body)
    \/ VideoDetailAnonymous
    \/ \E u \in Users : VideoDetailNotFound(u, 3)
    \/ \E u \in Users, v \in VideoIds : VideoDetail(u, v)

SpecDetail == Init /\ [][NextDetail]_vars

(***************************************************************************)
(* signup (core/views.py) with SignUpForm (core/forms.py): the username    *)
(* field takes the e-mail address, clean_username trims and lower-cases it *)
(* and looks it up among the usernames and the emails, save() stores it in *)
(* both columns.  Texts are sequences of characters.                       *)
(***************************************************************************)
UpperCase ==
    <<"A", "B", "C", "D", "E", "F", "G", "H", "I", "J", "K", "L", "M",
      "N", "O", "P", "Q", "R", "S", "T", "U", "V", "W", "X", "Y", "Z">>

LowerCase ==
    <<"a", "b", "c", "d", "e", "f", "g", "h", "i", "j", "k", "l", "m",
      "n", "o", "p", "q", "r", "s", "t", "u", "v", "w", "x", "y", "z">>

\* str.lower()
Lower(cs) ==
    [j \in 1..Len(cs) |->
        IF \E i \in 1..Len(UpperCase) : UpperCase[i] = cs[j]
        THEN LowerCase[CHOOSE i \in 1..Len(UpperCase) : UpperCase[i] = cs[j]]
        ELSE cs[j]]

\* self.cleaned_data.get("username", "").strip().lower()
CleanedEmail(raw) == Lower(Strip(raw))

Contains(cs, ch) == \E j \in 1..Len(cs) : cs[j] = ch

\* The username validator of the model field, run on the trimmed value of
\* the form field: letters, digits and @ . + - _ only.
ValidUsername(cs) ==
    \A j \in 1..Len(cs) :
        \/ \E i \in 1..Len(UpperCase) : cs[j] \in {UpperCase[i], LowerCase[i]}
        \/ IsDigit(cs[j])
        \/ cs[j] \in {"@", ".", "+", "-", "_"}

UserRow(id, username, email, is_staff) ==
    [id |-> id, username |-> username, email |-> email, is_staff |-> is_staff]

\* User.objects.filter(username=email).exists()
UsernameInUse(table, email) == \E r \in table : r.username = email

\* The lookup among the emails left out.
EmailInUseNotChecked(table, email) == FALSE

\* User.objects.filter(email=email).exists()
EmailInUse(table, email) == \E r \in table : r.email = email

\* username and email are unique columns: the insert is refused when
\* either is taken.
UserConflict(table, username, email) ==
    \E r \in table : r.username = username \/ r.email = email

NextUserId(table) ==
    IF table = {} THEN 1
    ELSE (CHOOSE r \in table : \A o \in table : o.id <= r.id).id + 1

Required == "this field is required"

InvalidUsername == "enter a valid username"

EnterEmail == "enter an e-mail address"

BadEmailFormat == "enter a well-formed e-mail address"

EmailTaken == "this e-mail address is in use"

OtherFieldInvalid == "another field is invalid"

\* The error of the username field, "" when it is clean: the field's own
\* validation first, then clean_username.
UsernameError(table, raw) ==
    LET email == CleanedEmail(raw)
    IN  IF Strip(raw) = << >> THEN Required
        ELSE IF ~ValidUsername(Strip(raw)) THEN InvalidUsername
        ELSE IF email = << >> THEN EnterEmail
        ELSE IF ~Contains(email, "@") \/ ~Contains(email, ".") THEN BadEmailFormat
        ELSE IF UsernameInUse(table, email) THEN EmailTaken
        ELSE IF EmailInUse(table, email) THEN EmailTaken
        ELSE ""

\* signup by a logged-in user: redirected to the dashboard.
SignupAuthenticated(u, method, raw) ==
    /\ signupResp' = SignupAnswer(u, method, raw, FALSE, 302, "")
    /\ UNCHANGED <<submitReq, catalog, users, shown, progVars, navVars, courseVars>>

\* A GET: the empty form.
SignupForm ==
    /\ signupResp' = SignupAnswer(Anonymous, "GET", << >>, FALSE, 200, "")
    /\ UNCHANGED <<submitReq, catalog, users, shown, progVars, navVars, courseVars>>

\* A POST: the form with its errors when it is not valid, else the user is
\* saved with the cleaned address as username and email and is_staff from
\* the checkbox, and the request redirected.  rest_valid stands for the
\* name and the two passwords.
Signup(raw, is_instructor, rest_valid) ==
    /\ LET error == UsernameError(users, raw)
           email == CleanedEmail(raw)
       IN  IF error # "" \/ ~rest_valid
           THEN /\ signupResp' = SignupAnswer(Anonymous, "POST", raw, is_instructor, 200,
                                          IF error # "" THEN error ELSE OtherFieldInvalid)
                /\ users' = users
           ELSE IF UserConflict(users, email, email)
           THEN /\ signupResp' = SignupAnswer(Anonymous, "POST", raw, is_instructor, 500, "")
                /\ users' = users
           ELSE /\ signupResp' = SignupAnswer(Anonymous, "POST", raw, is_instructor, 302, "")
                /\ users' = users \cup
                     {UserRow(NextUserId(users), email, email, is_instructor)}
    /\ UNCHANGED <<submitReq, catalog, shown, progVars, navVars, courseVars>>

\* Users made outside signup: a superuser whose username is a name, a user
\* whose username is the address of somebody else's form, a user whose
\* email has a capital letter.
ExistingUsers ==
    {UserRow(1, <<"a", "d", "m", "i", "n">>, <<"b", "@", "x", ".", "i", "o">>, TRUE),
     UserRow(2, <<"c", "@", "x", ".", "i", "o">>, <<"z", "@", "x", ".", "i", "o">>, FALSE),
     UserRow(3, <<"b", "o", "b">>, <<"A", "@", "x", ".", "i", "o">>, FALSE)}

\* What is typed into the username field.
RawEmails ==
    {<<"a", "@", "x", ".", "i", "o">>,
     <<" ", "A", "@", "X", ".", "i", "o", " ">>,
     <<"b", "@", "x", ".", "i", "o">>,
     <<"B", "@", "x", ".", "I", "O">>,
     <<"c", "@", "x", ".", "i", "o">>,
     <<"a", " ", "b", "@", "x", ".", "i", "o">>,
     <<"a", "b", ".", "i", "o">>,
     <<"a", "@", "x", "i", "o">>,
     <<" ", " ">>,
     << >>}

InitSignup ==
    /\ progress = {}
    /\ nextId = 1
    /\ last = NoResponse
    /\ req = [p \in Procs |-> IdleReq]
    /\ modules = {}
    /\ items = {}
    /\ nav = NoNav
    /\ enrollments = {}
    /\ submissions = {}
    /\ resp = NoResp
    /\ enrollReq = [p \in Procs |-> IdleEnroll]
    /\ submitReq = [p \in Procs |-> IdleSubmit]
    /\ catalog = NoCatalog
    /\ users \in SUBSET ExistingUsers
    /\ shown = NoDetail
    /\ signupResp = NoSignup

NextSignup ==
    \/ \E u \in Accounts, method \in {"GET", "POST"} :
          SignupAuthenticated(u, method, << >>)
    \/ SignupForm
    \/ \E raw \in RawEmails : Signup(raw, FALSE, TRUE)
    \/ \E v \in {<<TRUE, TRUE>>, <<FALSE, FALSE>>} :
          Signup(<<"a", "@", "x", ".", "i", "o">>, v[1], v[2])

SpecSignup == InitSignup /\ [][NextSignup]_vars

(***************************************************************************)
(* Properties of update_progress with requests handled one at a time.      *)
(***************************************************************************)
ReportedWatched(l) == PyFloat(l.body.watched_time).val

ReportedDuration(l) == PyFloat(l.body.duration).val

Clamped(x) == IF FLt(x, Num(0)) THEN Num(0) ELSE x

RowFor(table, u, v) == CHOOSE r \in Rows(table, u, v) : TRUE

\* The watched time on record for (u, v): 0 before the first report.
Persisted(table, u, v) ==
    IF Rows(table, u, v) = {} THEN Num(0) ELSE RowFor(table, u, v).watched_time

CompletedBefore(table, u, v) ==
    Rows(table, u, v) # {} /\ RowFor(table, u, v).is_completed

\* w >= 0.95 * d, on doubles.
Reaches95(w, d) ==
    /\ w.k # "nan" /\ d.k # "nan"
    /\ \/ w.k = "inf"
       \/ w.k = "num" /\ d.k = "num" /\ 20 * w.v >= 19 * d.v

StoredOrOne(v) == IF VideoDuration[v] = 0 THEN Num(1) ELSE Num(VideoDuration[v])

\* C1: the persisted watched_time of a (user, video) never decreases, and
\* after a successful report it is the larger of the value persisted before
\* and the reported value clamped to >= 0 (a NaN report leaves it as it was).
C1_WatchedNeverDecreases ==
    [][/\ \A r \in progress :
            \E r2 \in progress' :
                r2.id = r.id /\ FGe(r2.watched_time, r.watched_time)
       /\ last'.status = 200 =>
            LET prev == Persisted(progress, last'.user, last'.video)
                rep == Clamped(ReportedWatched(last'))
                now == Persisted(progress', last'.user, last'.video)
            IN  /\ Rows(progress', last'.user, last'.video) # {}
                /\ FGe(now, prev)
                /\ rep.k # "nan" => FGe(now, rep)
                /\ now \in {prev, rep}]_vars

\* A report lower than the persisted value was answered, and the persisted
\* value stayed above it.
C1_Witness ==
    /\ last.status = 200
    /\ FGt(ReportedWatched(last), Num(0))
    /\ FLt(ReportedWatched(last), Persisted(progress, last.user, last.video))

\* C2: once is_completed is true on a (user, video) record it stays true
\* through every later report.
C2_CompletedStaysTrue ==
    [][\A r \in progress :
          r.is_completed =>
             \E r2 \in progress' : r2.id = r.id /\ r2.is_completed]_vars

\* A completed record after a report whose own numbers are below the
\* threshold: less watched than 95% of the duration this report worked with.
C2_Witness ==
    /\ last.status = 200
    /\ last.is_completed
    /\ CompletedBefore(progress, last.user, last.video)
    /\ IsNum(last.duration)
    /\ ~Reaches95(Persisted(progress, last.user, last.video), last.duration)

\* C5: every report that names a video is answered with a percent, and the
\* percent is in [0, 100].
C5_PercentInRange ==
    last.video # 0 => (last.status = 200 /\ last.percent \in 0..100)

\* C6: the percent returned is min(100, floor(100 * persisted watched_time /
\* effective duration)).
C6_PercentIsFloor ==
    (/\ last.status = 200
     /\ IsNum(last.watched_time)
     /\ IsNum(last.duration) /\ last.duration.v > 0)
    => last.percent = PyMin(100, (100 * last.watched_time.v) \div last.duration.v)

C8_SubstitutedDurationPositive ==
    /\ (last.video # 0 /\ FLe(ReportedDuration(last), Num(0))) =>
          /\ last.duration = StoredOrOne(last.video)
          /\ FGt(last.duration, Num(0))
    /\ last.exc # "ZeroDivisionError"

\* A report with duration <= 0 for the video whose stored duration is 0.
C8_Witness ==
    /\ last.status = 200
    /\ VideoDuration[last.video] = 0
    /\ FLe(ReportedDuration(last), Num(0))
    /\ last.duration = Num(1)
    /\ last.percent = 100

NonNumeric(raw) == raw.t \in {"null", "str"}

Malformed(body) ==
    \/ body.kind = "unparsable"
    \/ /\ body.kind = "object"
       /\ \/ NonNumeric(body.video_id)
          \/ NonNumeric(body.watched_time)
          \/ NonNumeric(body.duration)

NamesNoVideo(body) ==
    /\ body.kind = "object"
    /\ ~Malformed(body)
    /\ \/ body.video_id.t = "missing"
       \/ body.video_id.t = "num" /\ IsNum(body.video_id.x)
                                  /\ body.video_id.x.v \notin VideoIds

AllDone == \A p \in Procs : req[p].pc = "done"

\* C3: when the requests for a (user, video) have all finished, the
\* persisted watched_time is not below any of the values they reported, and
\* at no step does a persisted watched_time drop.
C3_NoLostUpdate ==
    AllDone =>
       \A p \in Procs :
          FGe(Persisted(progress, req[p].user, req[p].video), req[p].watched_time)

\* C4: there is at most one VideoProgress row per (user, video), also while
\* first reports for one pair are in flight together; a row, once created,
\* stays the row of its pair.
C4_OneRowPerPair ==
    [][/\ \A r1, r2 \in progress' :
            (r1.user = r2.user /\ r1.video = r2.video) => r1 = r2
       /\ \A r \in progress :
            \E r2 \in progress' :
                r2.id = r.id /\ r2.user = r.user /\ r2.video = r.video]_vars

\* Two first reports for one pair ran together: one insert was refused, and
\* both requests finished on the one row.
C4_Witness ==
    /\ AllDone
    /\ \E p, q \in Procs :
          /\ p # q
          /\ req[p].user = req[q].user /\ req[p].video = req[q].video
          /\ req[q].conflict
          /\ req[p].row.id = req[q].row.id
          /\ Cardinality(Rows(progress, req[p].user, req[p].video)) = 1

(***************************************************************************)
(* Properties of the sequence navigation.                                  *)
(***************************************************************************)
ItemById(i) == CHOOSE it \in items : it.id = i

\* The key the sequence is sorted by: (module position, module id, item
\* position, item id).
SeqKey(it) ==
    <<(CHOOSE m \in modules : m.id = it.module).position, it.module, it.position, it.id>>

Before(a, b) ==
    \E k \in 1..4 : SeqKey(a)[k] < SeqKey(b)[k] /\ \A j \in 1..(k - 1) : SeqKey(a)[j] = SeqKey(b)[j]

InCourse(c) == {it \in items : (CHOOSE m \in modules : m.id = it.module).course = c}

\* C10: for an item x of course C the previous neighbour is the item of C
\* right before x in the order by (module position, module id, item
\* position, item id) and the next neighbour the one right after it; each
\* is None exactly when x is first, respectively last.
C10_NeighborsAreAdjacent ==
    nav.status = 200 =>
       LET x == ItemById(nav.item)
           earlier == {y \in InCourse(nav.course) : Before(y, x)}
           later == {y \in InCourse(nav.course) : Before(x, y)}
       IN  /\ nav.prev = None <=> earlier = {}
           /\ nav.next = None <=> later = {}
           /\ nav.prev # None =>
                 /\ ItemById(nav.prev) \in earlier
                 /\ \A y \in earlier : y.id = nav.prev \/ Before(y, ItemById(nav.prev))
           /\ nav.next # None =>
                 /\ ItemById(nav.next) \in later
                 /\ \A y \in later : y.id = nav.next \/ Before(ItemById(nav.next), y)

\* An item with both neighbours, in a course whose two modules share a
\* position, its previous neighbour in the other module.
C10_Witness ==
    /\ nav.status = 200
    /\ nav.prev # None /\ nav.next # None
    /\ ItemById(nav.prev).module # ItemById(nav.item).module
    /\ \E m1, m2 \in modules :
          /\ m1.id = ItemById(nav.prev).module
          /\ m2.id = ItemById(nav.item).module
          /\ m1.position = m2.position

\* C11: over an unchanged store navigation is invertible: the page of the
\* next neighbour of x shows x as its previous neighbour, and the page of
\* the previous neighbour of x shows x as its next neighbour.
C11_NavigationInvertible ==
    [][(nav.status = 200 /\ nav'.status = 200 /\ nav'.course = nav.course) =>
          /\ (nav.next # None /\ nav'.item = nav.next) => nav'.prev = nav.item
          /\ (nav.prev # None /\ nav'.item = nav.prev) => nav'.next = nav.item]_vars

\* The page of an item that is the next neighbour of the first item of a
\* course with three items: the page before showed x, this one shows
\* next(x).
C11_Witness ==
    /\ nav.status = 200
    /\ nav.prev # None /\ nav.next # None
    /\ GetSequenceNeighbors(modules, items, nav.course, nav.prev)[1] = None
    /\ GetSequenceNeighbors(modules, items, nav.course, nav.prev)[2] = nav.item

\* C12: when the item is not in the sequence of the course (deleted after
\* the lookup, or an item of another course), _get_sequence_neighbors
\* returns (None, None).
C12_NotInSequenceNoNeighbors ==
    [][(/\ items' = items
        /\ nav' # nav
        /\ nav'.op \in {"module_item_detail", "_get_sequence_neighbors"}
        /\ \A it \in ItemsOfCourse(modules, items, nav'.course) : it.id # nav'.item)
       => (nav'.prev = None /\ nav'.next = None)]_vars

\* The page of an item deleted after the lookup, in a course that still
\* has items, shown without neighbours.
C12_Witness ==
    /\ nav.op = "module_item_detail"
    /\ nav.status = 200
    /\ \A it \in items : it.id # nav.item
    /\ ItemsOfCourse(modules, items, nav.course) # {}
    /\ nav.prev = None /\ nav.next = None

(***************************************************************************)
(* Properties of the teacher check and of grading.                         *)
(***************************************************************************)
\* The enrollments of a user that make the user a teacher of a course:
\* role teacher, state active, on a section of the course.
ActiveTeacherEnrollments(u, c) ==
    {e \in enrollments :
        /\ e.user = u
        /\ e.role = "teacher"
        /\ e.enrollment_state = "active"
        /\ e.section \in {sec \in SectionIds : SectionCourse[sec] = c}}

ActiveTeacherOn(u, c) == u \in Accounts /\ ActiveTeacherEnrollments(u, c) # {}

GateRejected(r) == r.status = 302 /\ r.messages = <<NotAllowed>>

GatedView(r) ==
    r.op \in {"submission_list", "grade_submission"} /\ r.assignment \in AssignmentIds

\* C13: the teacher check passes exactly for an authenticated user with an
\* enrollment of role teacher and state active on a section of the course;
\* not for the anonymous user, another state, another role or a section of
\* another course.
C13_TeacherIffActiveTeacherEnrollment ==
    GatedView(resp) => (~GateRejected(resp) <=> ActiveTeacherOn(resp.user, resp.course))

\* Rejected: a pending teacher of the course who is an active teacher of
\* the other course.
C13_Witness ==
    /\ GatedView(resp)
    /\ GateRejected(resp)
    /\ \E e \in enrollments :
          /\ e.user = resp.user /\ e.role = "teacher" /\ e.enrollment_state = "pending"
          /\ SectionCourse[e.section] = resp.course
    /\ \E e \in enrollments :
          /\ e.user = resp.user /\ e.role = "teacher" /\ e.enrollment_state = "active"
          /\ SectionCourse[e.section] # resp.course

SameEnrollments(u1, u2) ==
    {<<e.section, e.role, e.enrollment_state>> : e \in {x \in enrollments : x.user = u1}}
    = {<<e.section, e.role, e.enrollment_state>> : e \in {x \in enrollments : x.user = u2}}

SameRequest(r1, r2) ==
    /\ r1.op = r2.op
    /\ r1.method = r2.method
    /\ r1.assignment = r2.assignment
    /\ r1.submission = r2.submission
    /\ r1.score = r2.score
    /\ r1.feedback = r2.feedback

\* C14: the gate of submission_list and grade_submission does not read the
\* staff flag: the same request by two users with the same enrollments, one
\* staff and one not, is rejected for both or for neither.
C14_GateIgnoresStaffFlag ==
    [][(/\ GatedView(resp) /\ GatedView(resp')
        /\ SameRequest(resp, resp')
        /\ resp.user \in Accounts /\ resp'.user \in Accounts
        /\ IsStaff[resp.user] # IsStaff[resp'.user]
        /\ SameEnrollments(resp.user, resp'.user))
       => (GateRejected(resp) <=> GateRejected(resp'))]_vars

\* A grading POST by the staff user rejected, the staff user enrolled as the
\* other user is, but not as an active teacher of the course.
C14_Witness ==
    /\ resp.op = "grade_submission"
    /\ resp.method = "POST"
    /\ resp.user \in Accounts
    /\ IsStaff[resp.user]
    /\ GateRejected(resp)
    /\ enrollments # {}
    /\ \E u \in Accounts : ~IsStaff[u] /\ SameEnrollments(u, resp.user)

\* C15: grade_submission by anyone who is not an active teacher of the
\* assignment's course, the anonymous user included, is rejected and leaves
\* every submission as it was, for GET and POST.
C15_NonTeacherChangesNothing ==
    [][(/\ resp'.op = "grade_submission"
        /\ resp'.assignment \in AssignmentIds
        /\ ~ActiveTeacherOn(resp'.user, resp'.course))
       => (GateRejected(resp') /\ submissions' = submissions)]_vars

\* A grading POST for submission 1 by an active teacher of another course,
\* rejected, with the grade an earlier request saved still in place.
C15_Witness ==
    /\ resp.op = "grade_submission"
    /\ resp.method = "POST"
    /\ resp.assignment = 1 /\ resp.submission = 1
    /\ resp.score = ScoreThreePlaces
    /\ GateRejected(resp)
    /\ ActiveTeacherEnrollments(resp.user, 2) # {}
    /\ \E r \in submissions :
          r.id = 1 /\ r.workflow_state = "graded" /\ r.score = Dec(8550, 2)

\* Two decimals of the same value, or both None.
SameScore(d1, d2) ==
    /\ d1.k = d2.k
    /\ d1.coef * Pow10(d2.places) = d2.coef * Pow10(d1.places)

\* C16: a grading POST by an active teacher with a parsable score ends with
\* the submission graded, its score the given decimal and its feedback the
\* given text (None when empty); with an empty score the score is None and
\* the submission is graded all the same.
C16_GradedWithGivenScore ==
    (/\ resp.op = "grade_submission"
     /\ resp.method = "POST"
     /\ ActiveTeacherOn(resp.user, resp.course)
     /\ \E r \in submissions : r.id = resp.submission /\ r.assignment = resp.assignment
     /\ Truthy(resp.score) => DecimalOf(resp.score.chars).exc = "")
    => LET row == CHOOSE r \in submissions : r.id = resp.submission
       IN  /\ resp.status = 302
           /\ row.workflow_state = "graded"
           /\ row.feedback = OrNone(resp.feedback)
           /\ IF Truthy(resp.score)
              THEN SameScore(row.score, DecimalOf(resp.score.chars).val)
              ELSE row.score = NoScore

\* C17: a grading POST whose non-empty score is no decimal changes nothing:
\* score, feedback and workflow_state of every submission stay as they were.
C17_InvalidScoreChangesNothing ==
    [][(/\ resp'.op = "grade_submission"
        /\ resp'.method = "POST"
        /\ Truthy(resp'.score)
        /\ DecimalOf(resp'.score.chars).exc # "")
       => submissions' = submissions]_vars

(***************************************************************************)
(* Properties of enroll_course.                                            *)
(***************************************************************************)
SectionsOf(c) == {sec \in SectionIds : SectionCourse[sec] = c}

\* The section of a course with the lowest id.
LowestSection(c) == CHOOSE sec \in SectionsOf(c) : \A other \in SectionsOf(c) : sec <= other

EnrollmentsOf(table, u, sec) == {e \in table : e.user = u /\ e.section = sec}

\* A POST to enroll_course by a logged-in user for a course with a section.
EnrollPost(r) ==
    /\ r.op = "enroll_course"
    /\ r.method = "POST"
    /\ r.user \in Accounts
    /\ SectionsOf(r.course) # {}

\* C18: a POST to enroll_course by an authenticated user not yet enrolled
\* on the first section (lowest id) of a course with sections creates
\* exactly one Enrollment, for the user and that section, role student,
\* state active, and none on any other section.
C18_EnrollsInFirstSection ==
    [][(/\ EnrollPost(resp')
        /\ EnrollmentsOf(enrollments, resp'.user, LowestSection(resp'.course)) = {})
       => \E e \in enrollments' :
             /\ e \notin enrollments
             /\ enrollments' = enrollments \cup {e}
             /\ e.user = resp'.user
             /\ e.section = LowestSection(resp'.course)
             /\ e.role = "student"
             /\ e.enrollment_state = "active"
             /\ \A old \in enrollments : old.id # e.id]_vars

\* Enrolled on section 1 of course 1 by a request, the user already being
\* enrolled on section 2 of the course.
C18_Witness ==
    /\ EnrollPost(resp)
    /\ resp.messages = <<EnrolledMessage>>
    /\ \E e \in enrollments :
          /\ e.user = resp.user /\ e.section = 1
          /\ e.role = "student" /\ e.enrollment_state = "active"
          /\ e.id = NextEnrollmentId - 1
    /\ \E e \in enrollments : e.user = resp.user /\ e.section = 2

\* C19: after an enroll_course POST there is exactly one Enrollment for the
\* user and the first section; a POST by a user who has one already reports
\* "already enrolled" and leaves the table, the role and state of that
\* Enrollment included, as it was.
C19_ReenrollmentIsNoOp ==
    [][EnrollPost(resp') =>
          LET sec == LowestSection(resp'.course)
          IN  /\ Cardinality(EnrollmentsOf(enrollments', resp'.user, sec)) = 1
              /\ EnrollmentsOf(enrollments, resp'.user, sec) # {} =>
                    /\ resp'.status = 302
                    /\ resp'.messages = <<AlreadyEnrolledMessage>>
                    /\ enrollments' = enrollments]_vars

\* "Already enrolled" reported to a user whose Enrollment on the first
\* section is a pending teacher's.
C19_Witness ==
    /\ EnrollPost(resp)
    /\ resp.messages = <<AlreadyEnrolledMessage>>
    /\ \E e \in enrollments :
          /\ e.user = resp.user
          /\ e.section = LowestSection(resp.course)
          /\ e.role = "teacher"
          /\ e.enrollment_state = "pending"

\* C20: with enroll_course requests of one user for one course interleaved
\* there is never more than one Enrollment for the user and the section,
\* and no request ends in an unhandled uniqueness error: the one that
\* loses is answered "already enrolled".
C20_RaceIsAlreadyEnrolled ==
    /\ \A u \in Accounts, sec \in SectionIds :
          Cardinality(EnrollmentsOf(enrollments, u, sec)) <= 1
    /\ resp.op = "enroll_course" => resp.status # 500

\* C21: enroll_course for a course without a Section creates no Enrollment
\* and reports an error; a request that is no POST creates none either.
C21_NoSectionOrNoPostEnrollsNobody ==
    [][(/\ resp'.op = "enroll_course"
        /\ \/ resp'.method # "POST"
           \/ resp'.course \in CoursesOffered /\ SectionsOf(resp'.course) = {})
       => /\ enrollments' = enrollments
          /\ (resp'.method = "POST" /\ resp'.user \in Accounts) =>
                (resp'.status = 302 /\ resp'.messages = <<NoSectionMessage>>)]_vars

\* The error reported to a user with an Enrollment elsewhere who posts to a
\* course without sections.
C21_Witness ==
    /\ resp.op = "enroll_course"
    /\ resp.method = "POST"
    /\ resp.user \in Accounts
    /\ SectionsOf(resp.course) = {}
    /\ resp.messages = <<NoSectionMessage>>
    /\ \E e \in enrollments : e.user = resp.user

\* C27: in every state reached through update_progress a record with
\* is_completed true, of a video whose stored duration is > 0, has a
\* persisted watched_time >= 0.95 * that stored duration.
C27_CompletedPastStoredThreshold ==
    \A r \in progress :
        (r.is_completed /\ VideoDuration[r.video] > 0)
            => Reaches95(r.watched_time, Num(VideoDuration[r.video]))

\* C29: every neighbour returned by _get_sequence_neighbors(C, x) is an
\* item of a module of course C and is different from x; an item of
\* another course is never the previous or the next one, also when its key
\* falls between those of C's items.
C29_NeighborsStayInCourse ==
    nav.status = 200 =>
       \A n \in {nav.prev, nav.next} \ {None} :
           /\ n # nav.item
           /\ \E it \in items :
                 /\ it.id = n
                 /\ \E m \in modules : m.id = it.module /\ m.course = nav.course

\* The page of an item whose next neighbour comes after an item of another
\* course in the order of the keys.
C29_Witness ==
    /\ nav.status = 200
    /\ nav.next # None
    /\ \E z \in items \ InCourse(nav.course) :
          /\ Before(ItemById(nav.item), z)
          /\ Before(z, ItemById(nav.next))

\* C28: grade_submission changes only the submission named in the request,
\* and only when that submission belongs to the assignment of the URL and
\* the caller is an active teacher of that assignment's course; every
\* other submission is left as it was.
C28_GradesOnlyTheNamedSubmission ==
    [][/\ {r.id : r \in submissions'} = {r.id : r \in submissions}
       /\ \A r \in submissions \ submissions' :
             /\ resp'.op = "grade_submission"
             /\ resp'.method = "POST"
             /\ r.id = resp'.submission
             /\ r.assignment = resp'.assignment
             /\ ActiveTeacherOn(resp'.user, AssignmentCourse[r.assignment])]_vars

\* User 1, an active teacher of course 1 only, has graded submission 1 and
\* then posts a grade for submission 3 of course 2 under assignment 1: the
\* answer is 404 and submission 3 is as it was submitted.
C28_Witness ==
    /\ resp.op = "grade_submission"
    /\ resp.method = "POST"
    /\ resp.user = 1
    /\ resp.assignment = 1
    /\ resp.submission = 3
    /\ resp.status = 404
    /\ ~ActiveTeacherOn(1, 2)
    /\ \E r \in submissions : r.id = 3 /\ r.assignment = 2 /\ r.workflow_state = "submitted"
    /\ \E r \in submissions : r.id = 1 /\ r.workflow_state = "graded"

(***************************************************************************)
(* Properties of submit_assignment.                                        *)
(***************************************************************************)
AttemptsOf(a, u) == {r.attempt : r \in SubmissionsOf(submissions, a, u)}

\* C22: no two Submissions share (assignment, user, attempt); the attempts
\* of a user for an assignment are 1, 2, 3, ... in the order the rows were
\* stored, each one more than the highest before it; and of two requests
\* that computed the same attempt number at most one is stored.
C22_AttemptsUniqueAndNumbered ==
    /\ \A r1, r2 \in submissions :
          (r1.assignment = r2.assignment /\ r1.user = r2.user /\ r1.attempt = r2.attempt)
             => r1 = r2
    /\ \A a \in AssignmentIds, u \in Accounts :
          AttemptsOf(a, u) = 1..Cardinality(SubmissionsOf(submissions, a, u))
    /\ \A r1, r2 \in submissions :
          (r1.assignment = r2.assignment /\ r1.user = r2.user /\ r1.id < r2.id)
             => r1.attempt < r2.attempt

\* Two requests of user 1 for assignment 1 both computed attempt 2; one
\* row with attempt 2 is stored after the row with attempt 1 and the other
\* request ended in a server error.
C22_Witness ==
    /\ resp.op = "submit_assignment"
    /\ resp.status = 500
    /\ resp.user = 1
    /\ resp.assignment = 1
    /\ AttemptsOf(1, 1) = {1, 2}
    /\ Cardinality(SubmissionsOf(submissions, 1, 1)) = 2

\* C30: under any sequence of submit_assignment and grade_submission
\* operations a Submission is created with workflow_state submitted,
\* submit_assignment changes no existing Submission (a resubmission adds a
\* row), and a Submission that is graded stays graded.
C30_SubmittedThenGradedForGood ==
    [][/\ \A r \in submissions' :
             (r.id \notin {o.id : o \in submissions}) => r.workflow_state = "submitted"
       /\ (submitReq' # submitReq \/ resp'.op = "submit_assignment")
             => submissions \subseteq submissions'
       /\ \A o \in submissions :
             o.workflow_state = "graded" =>
                \E r \in submissions' : r.id = o.id /\ r.workflow_state = "graded"]_vars

\* A resubmission after the first attempt was graded: the graded row is
\* there as it was and the second attempt is a new row, submitted.
C30_Witness ==
    /\ resp.op = "submit_assignment"
    /\ resp.status = 302
    /\ \E o, r \in submissions :
          /\ o.assignment = r.assignment /\ o.user = r.user
          /\ o.attempt = 1 /\ o.workflow_state = "graded"
          /\ r.attempt = 2 /\ r.workflow_state = "submitted"
          /\ r.id = resp.submission

(***************************************************************************)
(* Properties of deletion.                                                 *)
(***************************************************************************)
\* Every foreign key of the store names a row that is there.
ReferencesHold ==
    /\ \A c \in catalog.courses : c.term \in catalog.terms
    /\ \A r \in catalog.sections \cup catalog.pages \cup catalog.assignments
                \cup catalog.videos \cup modules : r.course \in Ids(catalog.courses)
    /\ \A e \in enrollments : e.section \in Ids(catalog.sections)
    /\ \A it \in items : it.module \in Ids(modules)
    /\ \A sub \in submissions : sub.assignment \in Ids(catalog.assignments)
    /\ \A p \in progress : p.video \in Ids(catalog.videos)

Store == <<catalog, modules, items, enrollments, submissions, progress>>

\* C23: deleting a Term is rejected, and the store left unchanged, whenever
\* a Course references the Term; a Term that no Course references is
\* deleted.
C23_TermInUseIsProtected ==
    [][(resp'.op = "delete_term" /\ resp'.course \in catalog.terms) =>
          IF \E c \in catalog.courses : c.term = resp'.course
          THEN /\ resp'.status = 500
               /\ resp'.messages = <<ProtectedError>>
               /\ Store' = Store
          ELSE /\ resp'.status = 204
               /\ catalog'.terms = catalog.terms \ {resp'.course}]_vars

\* The deletion of a Term rejected while a Course references it, after the
\* Term without courses was deleted.
C23_Witness ==
    /\ resp.op = "delete_term"
    /\ resp.status = 500
    /\ \E c \in catalog.courses : c.term = resp.course
    /\ resp.course \in catalog.terms
    /\ 3 \notin catalog.terms

\* The course of the row with this id, in the store before the step.
CourseOfRow(rows, id) == (CHOOSE r \in rows : r.id = id).course

\* C24: after a Course is deleted no Section, Module, Page, Assignment or
\* Video of the course remains, nor an Enrollment of its sections, a
\* ModuleItem of its modules, a Submission of its assignments or a
\* VideoProgress of its videos; no foreign key names a row that was
\* deleted; and the rows of other courses are as they were.
C24_CourseDeletionCascades ==
    [][/\ ReferencesHold'
       /\ (resp'.op = "delete_course" /\ resp'.status = 204) =>
             LET c == resp'.course
                 Others(rows) == {r \in rows : r.course # c}
             IN  /\ catalog'.terms = catalog.terms
                 /\ catalog'.courses = {r \in catalog.courses : r.id # c}
                 /\ catalog'.sections = Others(catalog.sections)
                 /\ catalog'.pages = Others(catalog.pages)
                 /\ catalog'.assignments = Others(catalog.assignments)
                 /\ catalog'.videos = Others(catalog.videos)
                 /\ modules' = Others(modules)
                 /\ items' = {it \in items : CourseOfRow(modules, it.module) # c}
                 /\ enrollments' =
                      {e \in enrollments : CourseOfRow(catalog.sections, e.section) # c}
                 /\ submissions' =
                      {sub \in submissions :
                          CourseOfRow(catalog.assignments, sub.assignment) # c}
                 /\ progress' =
                      {p \in progress : CourseOfRow(catalog.videos, p.video) # c}]_vars

\* Course 1 deleted with rows of it in every table, course 2 still there
\* with its section, module, assignment, enrollment and submission.
C24_Witness ==
    /\ resp.op = "delete_course"
    /\ resp.status = 204
    /\ resp.course = 1
    /\ Ids(catalog.courses) = {2}
    /\ Ids(catalog.sections) = {3}
    /\ Ids(modules) = {3}
    /\ Ids(catalog.assignments) = {2}
    /\ Ids(submissions) = {3}
    /\ Ids(enrollments) = {6}
    /\ Cardinality(items) = 1
    /\ Cardinality(catalog.pages) = 1
    /\ Cardinality(progress) = 1

(***************************************************************************)
(* Properties of video_detail.                                             *)
(***************************************************************************)
\* C25: the percent shown by video_detail follows the definition of the
\* percent returned by update_progress, floor(100 * watched / duration)
\* clamped to [0, 100]: on a record that update_progress has just answered
\* for, the page shows the percent of that answer, and never more than 100.
C25_DetailShowsThePercentOfUpdate ==
    [][(/\ shown' # shown
        /\ shown'.status = 200
        /\ last.status = 200
        /\ last.user = shown'.user
        /\ last.video = shown'.video)
       => /\ shown'.progress_percent = Num(10 * last.percent)
          /\ FLe(shown'.progress_percent, Num(1000))]_vars

(***************************************************************************)
(* Properties of signup.                                                   *)
(***************************************************************************)
EmailsUnique == \A r1, r2 \in users : r1.email = r2.email => r1 = r2

\* C26: a signup whose trimmed, lower-cased email is the username or the
\* email of an existing user is rejected and creates no user; a successful
\* signup creates exactly one user, with that lower-cased value as username
\* and as email; and no two users share an email.
C26_SignupKeepsEmailUnique ==
    [][/\ EmailsUnique'
       /\ (signupResp'.op = "signup" /\ signupResp'.method = "POST" /\ signupResp'.user = Anonymous) =>
             LET email == Lower(Strip(signupResp'.username))
             IN  /\ (\E r \in users : r.username = email \/ r.email = email) =>
                       /\ signupResp'.status = 200
                       /\ signupResp'.error # ""
                       /\ users' = users
                 /\ signupResp'.status # 302 => users' = users
                 /\ signupResp'.status = 302 =>
                       \E r \in users' \ users :
                          /\ users' = users \cup {r}
                          /\ r.username = email
                          /\ r.email = email]_vars

\* A signup with capitals for the address that is the email of the
\* superuser "admin" is rejected, after another address has signupResp up.
C26_Witness ==
    /\ signupResp.op = "signup"
    /\ signupResp.status = 200
    /\ signupResp.error = EmailTaken
    /\ signupResp.username # Lower(Strip(signupResp.username))
    /\ \E r \in users : r.email = Lower(Strip(signupResp.username)) /\ r.username # r.email
    /\ \E r \in users : r.username = r.email /\ r.id > 1

====
